---- MODULE Spec2Model ----
(***************************************************************************)
(* Model of the maegeul-api chat back end: the generation engine           *)
(* (services/rag.service.ts), the SSE chat controller                      *)
(* (controllers/chatController.ts), and the vector store / semantic cache  *)
(* (services/embedding.service.ts, services/semantic-cache.service.ts,     *)
(* controllers/diaryController.ts).                                        *)
(*                                                                         *)
(* Strings are modelled as sequences of fragments, so that concatenation   *)
(* is \o and "the same fragment delivered twice" is visible.               *)
(***************************************************************************)
EXTENDS Integers, Sequences, FiniteSets, TLC

\* ------------------------------------------------------------------------
\* Program constants
\* ------------------------------------------------------------------------
MAX_RETRIES == 3
RETRY_DELAY_MS == 3000

\* ------------------------------------------------------------------------
\* Bounds of the model
\* ------------------------------------------------------------------------
\* provider failures injected into the generation calls of one behaviour
MaxFaults == 3
\* provider failures injected when two generation calls overlap
MaxFaultsOverlap == 1
\* provider failures injected into the generation of one chat request
MaxFaultsChat == 1
\* storage failures injected into one chat request
MaxDbFaults == 2

Calls == {1, 2}
Owners == {1, 2}
\* currentToolContext === null
NoContext == 0

VARIABLES
  ctx,        \* rag.service.ts:714  currentToolContext (the userId in it, or NoContext)
  gen,        \* per generateResponse call: its locals and position
  faults,     \* provider failures injected so far
  faultLimit, \* how many the behaviour may inject
  chat,       \* the sendMessage request: its locals, position and response
  sessions,   \* chat_sessions / chat_messages: session id -> owner and messages
  dbFaults,   \* storage failures injected so far
  diaries,    \* "Diary" rows
  embeddings, \* diary_embeddings rows
  jobs,       \* storage operations launched and not yet completed
  cache,      \* semantic_cache rows
  clock,      \* NOW() in hours, the rows inserted and the clock advances so far
  found,      \* what the operation just performed returned
  chatSessions, \* chat_sessions rows, as the session service reads and writes them
  chatMessages, \* chat_messages rows
  svcClock,     \* new Date() in hours, and the calls made so far
  summ,         \* the summarizeOldMessages runs under way, one record a run
  goc,          \* the getOrCreateSession calls under way
  ret,          \* what the session-service call just made returned
  emb,          \* the createEmbedding call under way, and what it did
  rr,           \* the rerank call under way: its arguments and what it returned
  storing,      \* the storeInCache calls under way, and the rows they evicted
  trig          \* the extractEmotionTriggers call: its input and what it returned

genVars == <<ctx, gen, faults, faultLimit>>
chatVars == <<chat, sessions, dbFaults>>
storeVars == <<diaries, embeddings, jobs, cache, clock, found>>
svcVars == <<chatSessions, chatMessages, svcClock, summ, goc, ret>>
libVars == <<emb, rr, storing, trig>>
vars == <<ctx, gen, faults, faultLimit, chat, sessions, dbFaults,
          diaries, embeddings, jobs, cache, clock, found,
          chatSessions, chatMessages, svcClock, summ, goc, ret,
          emb, rr, storing, trig>>

\* ------------------------------------------------------------------------
\* The chat-completion provider (external): what it streams
\* ------------------------------------------------------------------------
NoCall == [id |-> "", name |-> "", args |-> <<>>]

\* One streamed delta: a text fragment, or one entry of delta.tool_calls.
TextChunk(f) ==
  [content |-> <<f>>, tc |-> FALSE, index |-> 0, id |-> "", name |-> "", args |-> <<>>]

ToolChunk(i, id, name, args) ==
  [content |-> <<>>, tc |-> TRUE, index |-> i, id |-> id, name |-> name, args |-> args]

\* A requested tool call is streamed as a head delta (index, id, name, empty
\* arguments) followed by one delta per argument fragment (index only).
ToolDeltas(call, i) ==
  <<ToolChunk(i, call.id, call.name, <<>>)>> \o
  [j \in 1..Len(call.args) |-> ToolChunk(i, "", "", <<call.args[j]>>)]

RECURSIVE AllToolDeltas(_, _)
AllToolDeltas(calls, k) ==
  IF k > Len(calls) THEN <<>>
  ELSE ToolDeltas(calls[k], k - 1) \o AllToolDeltas(calls, k + 1)

TextChunks(frags) == [j \in 1..Len(frags) |-> TextChunk(frags[j])]

\* What the provider answers to a request: text, then the tool calls it wants;
\* after the tool results, the final answer.
Scripts ==
  { [first |-> <<"a1", "a2">>, calls |-> <<>>, second |-> <<>>],
    [first |-> <<>>,
     calls |-> <<[id |-> "t1", name |-> "searchDiaries", args |-> <<"x1", "x2">>]>>,
     second |-> <<"a1", "a2">>],
    [first |-> <<>>,
     calls |-> <<[id |-> "t1", name |-> "searchDiaries", args |-> <<"x1", "x2">>],
                 [id |-> "t2", name |-> "getRecommendations", args |-> <<"y1">>]>>,
     second |-> <<"a1">>],
    [first |-> <<"p1">>,
     calls |-> <<[id |-> "t1", name |-> "analyzeMood", args |-> <<"y1">>]>>,
     second |-> <<"a1">>],
    [first |-> <<>>,
     calls |-> <<[id |-> "t1", name |-> "lookupWeather", args |-> <<"bad">>]>>,
     second |-> <<"a1">>] }

TextOnlyScript == [first |-> <<"a1", "a2">>, calls |-> <<>>, second |-> <<>>]

\* JSON.parse succeeds on a complete argument string only.
ValidJSON(args) == args \in { <<"x1", "x2">>, <<"y1">> }

\* The first stream: tool calls are only offered when tools were sent.
ProviderFirst(s, toolsSent) ==
  IF toolsSent /\ s.calls # <<>>
    THEN TextChunks(s.first) \o AllToolDeltas(s.calls, 1)
    ELSE TextChunks(IF s.calls = <<>> THEN s.first ELSE s.second)

ProviderSecond(s) == TextChunks(s.second)

\* Provider / transport failures: status, code and message class.
Errors ==
  { [status |-> 429, code |-> "", msg |-> "other"],
    [status |-> 401, code |-> "", msg |-> "other"],
    [status |-> 500, code |-> "", msg |-> "other"],
    [status |-> 0, code |-> "ECONNREFUSED", msg |-> "other"],
    [status |-> 400, code |-> "", msg |-> "other"],
    [status |-> 0, code |-> "", msg |-> "timeout"] }

NoError == [status |-> 0, code |-> "", msg |-> "none"]

\* ------------------------------------------------------------------------
\* rag.service.ts: helpers
\* ------------------------------------------------------------------------
\* variant: every failure is taken to be retryable
AlwaysRetryable(e) == TRUE

\* rag.service.ts:681-699
isRetryableError(e) ==
  \/ e.status = 429
  \/ e.code \in {"ECONNREFUSED", "ETIMEDOUT", "ENOTFOUND"}
  \/ (e.status >= 500 /\ e.status < 600)
  \/ e.msg \in {"network", "timeout"}

\* rag.service.ts:1344-1352, the error generateResponse throws
ClassifyError(e) ==
  IF e.status = 429 THEN "RateLimitExceeded"
  ELSE IF e.status = 401 THEN "AuthenticationError"
  ELSE IF e.code \in {"ECONNREFUSED", "ETIMEDOUT"} THEN "ConnectivityError"
  ELSE "GenerationError"


\* ------------------------------------------------------------------------
\* rag.service.ts: generateResponse, one atomic action per synchronous
\* segment (the code between two awaits)
\* ------------------------------------------------------------------------
AbsentCall ==
  [pc |-> "absent", userId |-> 0, hasDiaries |-> FALSE, script |-> TextOnlyScript,
   caller |-> "direct",
   attempt |-> 0, pos |-> 0, fullResponse |-> <<>>, toolCalls |-> <<>>,
   currentToolCall |-> NoCall, toolIdx |-> 0, messages |-> <<>>,
   lastError |-> NoError, result |-> <<>>, thrown |-> "",
   \* history, for stating properties
   delivered |-> <<>>, ctxSeen |-> <<>>, executed |-> <<>>, turns |-> <<>>,
   requests |-> 0, errs |-> <<>>, delays |-> <<>>]

\* a call of generateResponse(context, userMessage, onToken, userName,
\* chatHistory, hasDiaries, userId) about to run
NewCall(uid, hasD, s, who) ==
  [AbsentCall EXCEPT !.pc = "idle", !.userId = uid, !.hasDiaries = hasD,
                     !.script = s, !.caller = who]

\* const shouldUseTools = hasDiaries && userId  (rag.service.ts:1194)
shouldUseTools(g) == g.hasDiaries /\ g.userId # 0

\* onToken(delta.content): the caller's callback receives the fragment.
OnToken(g, content) == [g EXCEPT !.delivered = @ \o content]

\* The onToken callback sendMessage passes down (chatController.ts:178-190):
\* nothing once streamingInterrupted is set, else one token event per call.
TokenEvents(toks) == [j \in 1..Len(toks) |-> [type |-> "token", data |-> toks[j]]]

WriteTokens(ch, toks) ==
  [ch EXCEPT !.events = IF ch.interrupted THEN @ ELSE @ \o TokenEvents(toks),
             !.produced = @ + Len(toks)]

\* what a generation step delivered to onToken reaches the caller in that step
CallerReceives(c) ==
  LET new == SubSeq(gen'[c].delivered, Len(gen[c].delivered) + 1, Len(gen'[c].delivered))
  IN chat' = IF gen[c].caller = "chat" THEN WriteTokens(chat, new) ELSE chat

GenFrame(c) == CallerReceives(c) /\ UNCHANGED <<sessions, dbFaults, storeVars, svcVars, libVars>>

\* generateResponse up to its first await (rag.service.ts:1165-1204)
StartedCall(g) == [g EXCEPT !.pc = "req1", !.attempt = 1, !.requests = @ + 1]

\* if (userId) setToolContext({ userId, userName })  (rag.service.ts:1168-1170)
ContextAfterStart(g, context) == IF g.userId # 0 THEN g.userId ELSE context

GenStart(c) ==
  /\ gen[c].pc = "idle"
  /\ ctx' = ContextAfterStart(gen[c], ctx)
  /\ gen' = [gen EXCEPT ![c] = StartedCall(@)]
  /\ UNCHANGED <<faults, faultLimit>>
  /\ GenFrame(c)

\* the first create() resolves with a stream (rag.service.ts:1204-1218)
Request1(c) ==
  /\ gen[c].pc = "req1"
  /\ gen' = [gen EXCEPT ![c] = [@ EXCEPT !.pc = "stream1", !.pos = 1,
                                          !.fullResponse = <<>>, !.toolCalls = <<>>,
                                          !.currentToolCall = NoCall,
                                          !.executed = <<>>, !.turns = <<>>]]
  /\ UNCHANGED <<ctx, faults, faultLimit>>
  /\ GenFrame(c)

\* body of "for await (const chunk of stream)" (rag.service.ts:1218-1246)
ProcessChunk(g, ch) ==
  LET g1 ==
        IF ~ch.tc THEN g
        ELSE IF ch.index = 0 /\ ch.id # ""
          THEN [g EXCEPT
                  !.toolCalls = IF g.currentToolCall.id # ""
                                  THEN Append(@, g.currentToolCall) ELSE @,
                  !.currentToolCall = [id |-> ch.id, name |-> ch.name, args |-> ch.args]]
        ELSE IF g.currentToolCall.id # "" /\ ch.args # <<>>
          THEN [g EXCEPT !.currentToolCall.args = @ \o ch.args]
        ELSE g
  IN IF ch.content # <<>>
       THEN OnToken([g1 EXCEPT !.fullResponse = @ \o ch.content], ch.content)
       ELSE g1

Stream1Chunk(c) ==
  LET chunks == ProviderFirst(gen[c].script, shouldUseTools(gen[c])) IN
  /\ gen[c].pc = "stream1"
  /\ gen[c].pos <= Len(chunks)
  /\ gen' = [gen EXCEPT ![c] = [ProcessChunk(@, chunks[gen[c].pos]) EXCEPT !.pos = @ + 1]]
  /\ UNCHANGED <<ctx, faults, faultLimit>>
  /\ GenFrame(c)

ToolNames == {"searchDiaries", "analyzeMood", "getRecommendations", "findEmotionTriggers"}

\* tools whose first read of currentToolContext.userId is in the synchronous
\* part of execute (rag.service.ts:851, 924-925, 985-986)
ReadsBeforeAwait == {"analyzeMood", "getRecommendations", "findEmotionTriggers"}

ToolTurn(call, content) ==
  [role |-> "tool", tool_call_id |-> call.id, name |-> call.name, content |-> content]

\* The tool loop from toolIdx on, up to the next await (rag.service.ts:1272-1297):
\* a JSON.parse failure is caught and the loop goes on synchronously; a
\* dispatched tool runs its synchronous part and is awaited; after the last
\* tool the second request is issued.
RECURSIVE AdvanceTools(_, _)
AdvanceTools(g, context) ==
  IF g.toolIdx > Len(g.toolCalls)
    THEN [g EXCEPT !.pc = "req2", !.requests = @ + 1]
  ELSE
    LET call == g.toolCalls[g.toolIdx] IN
    IF ~ValidJSON(call.args)
      THEN AdvanceTools([g EXCEPT !.messages = Append(@, ToolTurn(call, "execution_failed")),
                                   !.turns = Append(@, call.id),
                                   !.toolIdx = @ + 1], context)
    ELSE IF call.name \notin ToolNames
      THEN [g EXCEPT !.pc = "toolDone", !.result = <<"unknown_tool">>,
                     !.executed = Append(@, [name |-> call.name, args |-> call.args])]
    ELSE
      LET g1 == [g EXCEPT !.executed = Append(@, [name |-> call.name, args |-> call.args]),
                          !.ctxSeen = IF call.name \in ReadsBeforeAwait \/ context = NoContext
                                        THEN Append(@, context) ELSE @] IN
      IF context = NoContext
        THEN [g1 EXCEPT !.pc = "toolDone", !.result = <<"no_context">>]
      ELSE [g1 EXCEPT !.pc = "toolAwait"]

\* the stream ended (rag.service.ts:1248-1275, 1316-1321)
Stream1End(c) ==
  LET chunks == ProviderFirst(gen[c].script, shouldUseTools(gen[c]))
      g == gen[c]
      calls == IF g.currentToolCall.id # ""
                 THEN Append(g.toolCalls, g.currentToolCall) ELSE g.toolCalls
  IN
  /\ g.pc = "stream1"
  /\ g.pos > Len(chunks)
  /\ IF Len(calls) > 0
       THEN /\ gen' = [gen EXCEPT ![c] =
                 AdvanceTools([g EXCEPT !.toolCalls = calls, !.toolIdx = 1,
                                        !.messages = Append(@, [role |-> "assistant",
                                                                 tool_call_id |-> "",
                                                                 name |-> "",
                                                                 content |-> "tool_calls"])],
                              ctx)]
            /\ ctx' = ctx
       ELSE /\ gen' = [gen EXCEPT ![c] = [g EXCEPT !.pc = "done", !.toolCalls = calls,
                                                    !.result = g.fullResponse]]
            /\ ctx' = NoContext
  /\ UNCHANGED <<faults, faultLimit>>
  /\ GenFrame(c)

\* a tool's execute resumes after its first await and reads
\* currentToolContext.userId again (rag.service.ts:793-800, 867-869, 930, 991);
\* with the context cleared the read throws and the tool's own catch answers.
ToolResume(c) ==
  /\ gen[c].pc = "toolAwait"
  /\ gen' = [gen EXCEPT ![c] =
        [@ EXCEPT !.pc = "toolDone",
                  !.ctxSeen = Append(@, ctx),
                  !.result = IF ctx = NoContext THEN <<"tool_error">> ELSE <<"tool_ok">>]]
  /\ UNCHANGED <<ctx, faults, faultLimit>>
  /\ GenFrame(c)

\* "await executeToolCall" resolves: the tool turn is pushed and the loop goes
\* on (rag.service.ts:1275-1282)
ToolDone(c) ==
  LET g == gen[c]
      call == g.toolCalls[g.toolIdx] IN
  /\ g.pc = "toolDone"
  /\ gen' = [gen EXCEPT ![c] =
        AdvanceTools([g EXCEPT !.messages = Append(@, ToolTurn(call, g.result[1])),
                               !.turns = Append(@, call.id),
                               !.result = <<>>,
                               !.toolIdx = @ + 1], ctx)]
  /\ UNCHANGED <<ctx, faults, faultLimit>>
  /\ GenFrame(c)

\* the second create() resolves (rag.service.ts:1297-1307)
Request2(c) ==
  /\ gen[c].pc = "req2"
  /\ gen' = [gen EXCEPT ![c] = [@ EXCEPT !.pc = "stream2", !.pos = 1,
                                          !.fullResponse = <<>>]]
  /\ UNCHANGED <<ctx, faults, faultLimit>>
  /\ GenFrame(c)

Stream2Chunk(c) ==
  LET chunks == ProviderSecond(gen[c].script)
      ch == chunks[gen[c].pos] IN
  /\ gen[c].pc = "stream2"
  /\ gen[c].pos <= Len(chunks)
  /\ gen' = [gen EXCEPT ![c] =
        [(IF ch.content # <<>>
            THEN OnToken([@ EXCEPT !.fullResponse = @ \o ch.content], ch.content)
            ELSE @) EXCEPT !.pos = @ + 1]]
  /\ UNCHANGED <<ctx, faults, faultLimit>>
  /\ GenFrame(c)

Stream2End(c) ==
  /\ gen[c].pc = "stream2"
  /\ gen[c].pos > Len(ProviderSecond(gen[c].script))
  /\ gen' = [gen EXCEPT ![c] = [@ EXCEPT !.pc = "done", !.result = gen[c].fullResponse]]
  /\ ctx' = NoContext
  /\ UNCHANGED <<faults, faultLimit>>
  /\ GenFrame(c)

\* a create() or a stream rejects: the catch of the attempt
\* (rag.service.ts:1322-1352)
Catch(g, e) ==
  LET g1 == [g EXCEPT !.lastError = e, !.errs = Append(@, e)] IN
  IF isRetryableError(e) /\ g.attempt < MAX_RETRIES
    THEN [g1 EXCEPT !.pc = "delay"]
    ELSE [g1 EXCEPT !.pc = "failed", !.thrown = ClassifyError(e)]

ProviderFails(c) ==
  /\ gen[c].pc \in {"req1", "stream1", "req2", "stream2"}
  /\ faults < faultLimit
  /\ \E e \in Errors :
       /\ gen' = [gen EXCEPT ![c] = Catch(@, e)]
       /\ ctx' = IF gen'[c].pc = "failed" THEN NoContext ELSE ctx
  /\ faults' = faults + 1
  /\ UNCHANGED faultLimit
  /\ GenFrame(c)

\* delay(RETRY_DELAY_MS) elapsed; continue: the next attempt's create()
RetryAfterDelay(c) ==
  /\ gen[c].pc = "delay"
  /\ gen' = [gen EXCEPT ![c] = [@ EXCEPT !.pc = "req1", !.attempt = @ + 1,
                                          !.requests = @ + 1,
                                          !.delays = Append(@, RETRY_DELAY_MS)]]
  /\ UNCHANGED <<ctx, faults, faultLimit>>
  /\ GenFrame(c)

\* the steps of a call that is under way
GenRun(c) ==
  \/ Request1(c)
  \/ Stream1Chunk(c)
  \/ Stream1End(c)
  \/ ToolResume(c)
  \/ ToolDone(c)
  \/ Request2(c)
  \/ Stream2Chunk(c)
  \/ Stream2End(c)
  \/ ProviderFails(c)
  \/ RetryAfterDelay(c)

GenStep(c) == GenStart(c) \/ GenRun(c)

\* ------------------------------------------------------------------------
\* Strings of the chat path, as fragment sequences
\* ------------------------------------------------------------------------
\* guardrailResult.reason of a rejected message (guardrail.service.ts:333)
GUARDRAIL_REASON == <<"g1", "g2">>
\* chatController.ts:33
DEFAULT_SUPPORTIVE_MESSAGE == <<"d1", "d2">>
\* rag.service.ts:1360-1375
NO_DIARY_RESPONSE == <<"n1", "n2">>
\* rag.service.ts:1382-1394
NO_CONTEXT_RESPONSE == <<"f1", "f2">>
\* chatController.ts:247
INTERRUPTED_MARKER == <<"[interrupted]">>
\* the response column of a semantic_cache row
CACHED_RESPONSE == <<"c1", "c2">>

RECURSIVE TrimLeft(_)
TrimLeft(str) ==
  IF str # <<>> /\ Head(str) = " " THEN TrimLeft(Tail(str)) ELSE str

RECURSIVE TrimRight(_)
TrimRight(str) ==
  IF str # <<>> /\ str[Len(str)] = " " THEN TrimRight(SubSeq(str, 1, Len(str) - 1)) ELSE str

\* String.prototype.trim
Trim(str) == TrimRight(TrimLeft(str))

IsLeak(f) == f = "<sys>"
NotLeak(f) == ~IsLeak(f)

\* guardrail.service.ts:397-412: leaked system markers are removed, SQL-like
\* text is replaced, the result is trimmed
sanitizeOutput(output) ==
  Trim([j \in 1..Len(SelectSeq(output, NotLeak)) |->
          IF SelectSeq(output, NotLeak)[j] = "SELECT..FROM" THEN "[FILTERED]"
          ELSE SelectSeq(output, NotLeak)[j]])

\* rag.service.ts:1546-1557: a trailing CTA marker is cut off and the rest trimmed
parseCTAMarker(response) ==
  IF response # <<>> /\ TrimRight(response) # <<>>
     /\ TrimRight(response)[Len(TrimRight(response))] = "[CTA]"
    THEN Trim(SubSeq(TrimRight(response), 1, Len(TrimRight(response)) - 1))
    ELSE response

Range(f) == { f[x] : x \in DOMAIN f }

\* guardrail.service.ts:316-390
runGuardrails(input) ==
  IF Trim(input) = <<>>
    THEN [isAllowed |-> FALSE, reason |-> <<"g0">>, sanitizedInput |-> <<>>]
  ELSE IF "inject" \in Range(input)
    THEN [isAllowed |-> FALSE, reason |-> GUARDRAIL_REASON, sanitizedInput |-> <<>>]
  ELSE IF "pii" \in Range(input)
    THEN [isAllowed |-> TRUE, reason |-> <<>>,
          sanitizedInput |-> [j \in 1..Len(Trim(input)) |->
                                IF Trim(input)[j] = "pii" THEN "***" ELSE Trim(input)[j]]]
  ELSE [isAllowed |-> TRUE, reason |-> <<>>, sanitizedInput |-> Trim(input)]

\* number of characters of a fragment
CharLen(f) == IF f = " " THEN 1 ELSE IF f = "hi" THEN 2 ELSE IF f = "a2" THEN 14 ELSE 6

RECURSIVE StrLen(_)
StrLen(str) == IF str = <<>> THEN 0 ELSE CharLen(Head(str)) + StrLen(Tail(str))

\* request bodies
Messages == { <<>>, <<" ">>, <<" ", "m1">>, <<"hi">>, <<"m1", "pii">>, <<"inject">> }

\* ------------------------------------------------------------------------
\* session.service: the session store
\* ------------------------------------------------------------------------
SessionIds == {"s1", "s2"}

Msg(role, content, ids) == [role |-> role, content |-> content, related_diary_ids |-> ids]

\* getSessionById: the row, or null; a deleted row is kept as the row of no
\* user
SessionExists(sid) == sid \in SessionIds /\ sessions[sid].user_id # 0

\* getOrCreateSession: the owner's active session of today
getOrCreateSession(uid) == CHOOSE sid \in SessionIds : sessions[sid].user_id = uid

\* getRecentMessages(sid, limit): the limit newest, oldest first
getRecentMessages(sid, limit) ==
  LET m == sessions[sid].messages IN
  IF Len(m) <= limit THEN m ELSE SubSeq(m, Len(m) - limit + 1, Len(m))

SUMMARIZATION_THRESHOLD == 10

\* needsSummarization
needsSummarization(sid) == Len(sessions[sid].messages) > SUMMARIZATION_THRESHOLD

\* saveMessage: chatMessage.create, then chatSession.update
AppendMessage(sid, m) ==
  sessions' = [sessions EXCEPT ![sid].messages = Append(@, m)]

\* ------------------------------------------------------------------------
\* chatController.ts: sendMessage, one action per resolved await
\* ------------------------------------------------------------------------
NoChat ==
  [pc |-> "none", userId |-> 0, message |-> <<>>, session_id |-> "",
   diaryCount |-> 0,
   allowed |-> FALSE, reason |-> <<>>, sanitizedMessage |-> <<>>, sid |-> "",
   chatHistory |-> <<>>, events |-> <<>>, json |-> 0, headersSent |-> FALSE,
   ended |-> FALSE, handler |-> FALSE, interrupted |-> FALSE, closed |-> FALSE,
   fullResponse |-> <<>>, diaryIds |-> <<>>, path |-> "", response |-> <<>>,
   summarizing |-> FALSE,
   \* how the searchCache call just made ended, and how the storeInCache call
   \* the request launched ended
   lookup |-> "none", store |-> "none",
   \* the handler that serves the request, the limit of a context request,
   \* and what the JSON body holds of a session
   endpoint |-> "sendMessage", limit |-> 0, body |-> [session_id |-> "", messages |-> <<>>],
   \* history, for stating properties
   produced |-> 0]

Event(type, data) == [type |-> type, data |-> data]

\* res.status(code).json(...); return
Json(ch, code) == [ch EXCEPT !.json = code, !.ended = TRUE, !.pc = "ended"]

\* res.write of one event
Write(ch, ev) == [ch EXCEPT !.events = Append(@, ev)]

\* res.setHeader ...; res.flushHeaders(); the session event
\* (chatController.ts:83-91, 150-158)
OpenStream(ch) ==
  Write([ch EXCEPT !.headersSent = TRUE], Event("session", ch.sid))

\* a storage call of this request fails
DbFails == dbFaults < MaxDbFaults /\ dbFaults' = dbFaults + 1

\* sendMessage without the guardrail: every non-empty message is allowed
ChatStartUnguarded ==
  /\ chat.pc = "new"
  /\ IF chat.userId = 0 THEN chat' = Json(chat, 401)
     ELSE IF Trim(chat.message) = <<>> THEN chat' = Json(chat, 400)
     ELSE chat' = [chat EXCEPT !.pc = "session", !.allowed = TRUE,
                               !.sanitizedMessage = Trim(chat.message)]
  /\ UNCHANGED <<genVars, sessions, dbFaults>>
  /\ UNCHANGED <<storeVars, svcVars, libVars>>

\* chatController.ts:44-77, 122-135: up to the first await
ChatStart ==
  /\ chat.pc = "new"
  /\ LET g == runGuardrails(chat.message) IN
     IF chat.userId = 0 THEN chat' = Json(chat, 401)
     ELSE IF Trim(chat.message) = <<>> THEN chat' = Json(chat, 400)
     ELSE chat' = [chat EXCEPT !.pc = "session", !.allowed = g.isAllowed,
                               !.reason = g.reason,
                               !.sanitizedMessage =
                                  IF g.sanitizedInput # <<>> THEN g.sanitizedInput
                                  ELSE Trim(chat.message)]
  /\ UNCHANGED <<genVars, sessions, dbFaults>>
  /\ UNCHANGED <<storeVars, svcVars, libVars>>

\* getSessionById / getOrCreateSession resolved (chatController.ts:69-80, 127-138)
SessionResolved ==
  /\ chat.pc = "session"
  /\ \/ /\ DbFails
        /\ chat' = Json(chat, 500)
     \/ /\ UNCHANGED dbFaults
        /\ IF chat.session_id # ""
              /\ (~SessionExists(chat.session_id)
                  \/ sessions[chat.session_id].user_id # chat.userId)
             THEN chat' = Json(chat, 404)
             ELSE chat' = [chat EXCEPT !.pc = "saveUser",
                              !.sid = IF chat.session_id # "" THEN chat.session_id
                                      ELSE getOrCreateSession(chat.userId)]
  /\ UNCHANGED <<genVars, sessions>>
  /\ UNCHANGED <<storeVars, svcVars, libVars>>

\* the text saveMessage is given for the user turn (chatController.ts:80, 138)
UserTurnText(ch) == IF ch.allowed THEN ch.sanitizedMessage ELSE Trim(ch.message)

\* saveMessage(user) resolved; a rejected message is answered at once
\* (chatController.ts:80-100), an allowed one reads its history (138-141)
UserSaved ==
  /\ chat.pc = "saveUser"
  /\ \/ /\ DbFails
        /\ chat' = Json(chat, 500)
        /\ \/ UNCHANGED sessions
           \/ AppendMessage(chat.sid, Msg("user", UserTurnText(chat), <<>>))
     \/ /\ UNCHANGED dbFaults
        /\ AppendMessage(chat.sid, Msg("user", UserTurnText(chat), <<>>))
        /\ IF chat.allowed
             THEN chat' = [chat EXCEPT !.pc = "recent"]
             ELSE chat' = [WriteTokens(OpenStream(chat), chat.reason)
                             EXCEPT !.pc = "rejSaveAssistant"]
  /\ UNCHANGED genVars
  /\ UNCHANGED <<storeVars, svcVars, libVars>>

\* rejected message: saveMessage(assistant) resolved (chatController.ts:100-118);
\* on failure the catch calls res.status(500).json after the headers were
\* flushed: either that throws out of the handler and the stream is left open,
\* or it ends the stream with a JSON body; neither writes an event
RejectionSaved ==
  /\ chat.pc = "rejSaveAssistant"
  /\ \/ /\ DbFails
        /\ \/ chat' = [chat EXCEPT !.pc = "crashed"]
           \/ chat' = [chat EXCEPT !.json = 500, !.ended = TRUE, !.pc = "ended"]
        /\ \/ UNCHANGED sessions
           \/ AppendMessage(chat.sid, Msg("assistant", chat.reason, <<>>))
     \/ /\ UNCHANGED dbFaults
        /\ AppendMessage(chat.sid, Msg("assistant", chat.reason, <<>>))
        /\ chat' = [Write(chat, Event("done", "")) EXCEPT !.ended = TRUE, !.pc = "ended"]
  /\ UNCHANGED genVars
  /\ UNCHANGED <<storeVars, svcVars, libVars>>

\* getRecentMessages resolved (chatController.ts:141-174, rag.service.ts:1577)
RecentLoaded ==
  /\ chat.pc = "recent"
  /\ \/ /\ DbFails
        /\ chat' = Json(chat, 500)
     \/ /\ UNCHANGED dbFaults
        /\ LET recent == getRecentMessages(chat.sid, 10) IN
           chat' = [OpenStream(chat) EXCEPT
                      !.chatHistory = SubSeq(recent, 1, Len(recent) - 1),
                      !.handler = TRUE, !.pc = "ragCount"]
  /\ UNCHANGED <<genVars, sessions>>
  /\ UNCHANGED <<storeVars, svcVars, libVars>>

\* req.on('close') (chatController.ts:166-170): the flag is set only once the
\* handler is registered
ClientCloses ==
  /\ chat.pc \notin {"none", "ended", "crashed"}
  /\ ~chat.closed
  /\ chat' = [chat EXCEPT !.closed = TRUE, !.interrupted = chat.handler]
  /\ UNCHANGED <<genVars, sessions, dbFaults>>
  /\ UNCHANGED <<storeVars, svcVars, libVars>>

\* the inner catch of sendMessage (chatController.ts:231-251) up to its await
InnerCatch(ch) ==
  LET ch1 == IF ch.interrupted THEN ch ELSE Write(ch, Event("error", "")) IN
  IF ch.fullResponse # <<>>
    THEN [ch1 EXCEPT !.pc = "catchSave"]
    ELSE [ch1 EXCEPT !.ended = TRUE, !.pc = "ended"]

\* generateRAGResponse calls generateResponse, which runs to its first await
CallGenerate(hasD, path, ids) ==
  /\ \E s \in Scripts :
       gen' = [gen EXCEPT ![1] = StartedCall(NewCall(chat.userId, hasD, s, "chat"))]
  /\ ctx' = ContextAfterStart(NewCall(chat.userId, hasD, TextOnlyScript, "chat"), ctx)
  /\ chat' = [chat EXCEPT !.pc = "ragGen", !.path = path, !.diaryIds = ids,
                          !.lookup = IF @ = "hit" THEN @ ELSE "none"]
  /\ UNCHANGED <<faults, faultLimit>>

\* const shouldUseCache = chatHistory.length <= 2 && userMessage.length >= 5
shouldUseCache(ch) == Len(ch.chatHistory) <= 2 /\ StrLen(ch.sanitizedMessage) >= 5

\* prisma.diary.count resolved (rag.service.ts:1577-1636, 1669)
DiariesCounted ==
  /\ chat.pc = "ragCount"
  /\ \/ /\ DbFails
        /\ chat' = InnerCatch(chat)
        /\ UNCHANGED genVars
     \/ /\ UNCHANGED dbFaults
        /\ IF chat.diaryCount = 0 /\ chat.chatHistory = <<>>
             THEN /\ chat' = [WriteTokens(chat, NO_DIARY_RESPONSE) EXCEPT
                                !.response = NO_DIARY_RESPONSE, !.pc = "ragReturn"]
                  /\ UNCHANGED genVars
           ELSE IF chat.diaryCount = 0
             THEN CallGenerate(FALSE, "nodiary", <<>>)
           ELSE /\ chat' = [chat EXCEPT !.pc = IF shouldUseCache(chat) THEN "ragCache"
                                               ELSE "ragRetrieve"]
                /\ UNCHANGED genVars
  /\ UNCHANGED sessions
  /\ UNCHANGED <<storeVars, svcVars, libVars>>

\* variant: a failure inside searchCache reaches the request
CacheSearchedPropagating ==
  /\ chat.pc = "ragCache"
  /\ \/ chat' = [WriteTokens(chat, CACHED_RESPONSE) EXCEPT
                   !.response = CACHED_RESPONSE, !.diaryIds = <<1>>, !.pc = "ragCta",
                   !.lookup = "hit"]
     \/ chat' = [chat EXCEPT !.pc = "ragRetrieve", !.lookup = "miss"]
     \/ chat' = InnerCatch([chat EXCEPT !.lookup = "failed"])
  /\ UNCHANGED <<genVars, sessions, dbFaults>>
  /\ UNCHANGED <<storeVars, svcVars, libVars>>

\* searchCache resolved (rag.service.ts:1636-1669): with a hit, with a miss, or
\* with the { hit: false } of its catch block when createEmbedding or the
\* query failed (semantic-cache.service.ts:103-106)
CacheSearched ==
  /\ chat.pc = "ragCache"
  /\ \/ chat' = [WriteTokens(chat, CACHED_RESPONSE) EXCEPT
                   !.response = CACHED_RESPONSE, !.diaryIds = <<1>>, !.pc = "ragCta",
                   !.lookup = "hit"]
     \/ chat' = [chat EXCEPT !.pc = "ragRetrieve", !.lookup = "miss"]
     \/ chat' = [chat EXCEPT !.pc = "ragRetrieve", !.lookup = "failed"]
  /\ UNCHANGED <<genVars, sessions, dbFaults>>
  /\ UNCHANGED <<storeVars, svcVars, libVars>>

\* retrieveContext resolved or rejected (rag.service.ts:1669-1715); the result
\* of the lookup is local to the try block at 1635-1665 and is gone by now
ContextRetrieved ==
  /\ chat.pc = "ragRetrieve"
  /\ \/ /\ DbFails
        /\ chat' = InnerCatch([chat EXCEPT !.lookup = "none"])
        /\ UNCHANGED genVars
     \/ /\ UNCHANGED dbFaults
        /\ CallGenerate(TRUE, "nocontext", <<>>)
     \/ /\ UNCHANGED dbFaults
        /\ CallGenerate(TRUE, "grounded", <<1>>)
  /\ UNCHANGED sessions
  /\ UNCHANGED <<storeVars, svcVars, libVars>>

\* generateResponse returned (rag.service.ts:1609, 1688, 1718)
GenerateReturned ==
  /\ chat.pc = "ragGen"
  /\ gen[1].pc = "done"
  /\ chat' = [chat EXCEPT !.response = parseCTAMarker(gen[1].result), !.pc = "ragCta"]
  /\ UNCHANGED <<genVars, sessions, dbFaults>>
  /\ UNCHANGED <<storeVars, svcVars, libVars>>

\* generateResponse threw: two of the three call sites catch it and stream the
\* fallback (rag.service.ts:1617-1623, 1696-1703); the diary-grounded one does not
GenerateThrew ==
  /\ chat.pc = "ragGen"
  /\ gen[1].pc = "failed"
  /\ IF chat.path \in {"nodiary", "nocontext"}
       THEN chat' = [WriteTokens(chat, NO_CONTEXT_RESPONSE) EXCEPT
                       !.response = NO_CONTEXT_RESPONSE, !.diaryIds = <<>>,
                       !.pc = "ragReturn"]
       ELSE chat' = InnerCatch(chat)
  /\ UNCHANGED <<genVars, sessions, dbFaults>>
  /\ UNCHANGED <<storeVars, svcVars, libVars>>

\* analyzeCTAWithStructuredOutput resolved; it never rejects. On the
\* diary-grounded path the cache write is launched next and not awaited
\* (rag.service.ts:1732-1737)
CtaAnalyzed ==
  /\ chat.pc = "ragCta"
  /\ chat' = [chat EXCEPT
                !.pc = "ragReturn",
                !.store = IF chat.path = "grounded" /\ shouldUseCache(chat)
                             /\ StrLen(chat.response) >= 20
                            THEN "pending" ELSE @]
  /\ UNCHANGED <<genVars, sessions, dbFaults>>
  /\ UNCHANGED <<storeVars, svcVars, libVars>>

\* the storeInCache call launched by the request settled
\* (semantic-cache.service.ts:117-180): the row was written and the owner's
\* cache cleaned up, or the insert failed, or the cleanup failed; the catch
\* blocks at 144-147 and 177-179 log the failure and the promise resolves
CacheStoreSettled ==
  /\ chat.store = "pending"
  /\ \E outcome \in {"stored", "failed", "evictionFailed"} :
       chat' = [chat EXCEPT !.store = outcome]
  /\ UNCHANGED <<genVars, sessions, dbFaults>>
  /\ UNCHANGED <<storeVars, svcVars, libVars>>

\* generateRAGResponse resolved (chatController.ts:194-211)
RagReturned ==
  /\ chat.pc = "ragReturn"
  /\ LET full == sanitizeOutput(chat.response) IN
     IF Trim(full) = <<>>
       THEN chat' = [WriteTokens(chat, DEFAULT_SUPPORTIVE_MESSAGE) EXCEPT
                       !.fullResponse = DEFAULT_SUPPORTIVE_MESSAGE, !.pc = "saveAssistant"]
       ELSE chat' = [chat EXCEPT !.fullResponse = full, !.pc = "saveAssistant"]
  /\ UNCHANGED <<genVars, sessions, dbFaults>>
  /\ UNCHANGED <<storeVars, svcVars, libVars>>

\* saveMessage(assistant) resolved or rejected (chatController.ts:211-215)
AssistantSaved ==
  /\ chat.pc = "saveAssistant"
  /\ \/ /\ DbFails
        /\ chat' = InnerCatch(chat)
        /\ \/ UNCHANGED sessions
           \/ AppendMessage(chat.sid, Msg("assistant", chat.fullResponse, chat.diaryIds))
     \/ /\ UNCHANGED dbFaults
        /\ AppendMessage(chat.sid, Msg("assistant", chat.fullResponse, chat.diaryIds))
        /\ chat' = [chat EXCEPT !.pc = "needsSummarization"]
  /\ UNCHANGED genVars
  /\ UNCHANGED <<storeVars, svcVars, libVars>>

\* needsSummarization resolved or rejected (chatController.ts:215-229, 253);
\* when it holds summarizeOldMessages is launched and not awaited
SummarizationChecked ==
  /\ chat.pc = "needsSummarization"
  /\ \/ /\ DbFails
        /\ chat' = InnerCatch(chat)
     \/ /\ UNCHANGED dbFaults
        /\ chat' = [(IF chat.interrupted THEN chat ELSE Write(chat, Event("done", "")))
                      EXCEPT !.summarizing = needsSummarization(chat.sid),
                             !.ended = TRUE, !.pc = "ended"]
  /\ UNCHANGED <<genVars, sessions>>
  /\ UNCHANGED <<storeVars, svcVars, libVars>>

\* saveMessage of the partial response resolved or rejected
\* (chatController.ts:243-271)
PartialSaved ==
  /\ chat.pc = "catchSave"
  /\ \/ /\ DbFails
        /\ chat' = [Write(chat, Event("error", "")) EXCEPT !.ended = TRUE, !.pc = "ended"]
        /\ \/ UNCHANGED sessions
           \/ AppendMessage(chat.sid, Msg("assistant", chat.fullResponse \o INTERRUPTED_MARKER,
                                         chat.diaryIds))
     \/ /\ UNCHANGED dbFaults
        /\ AppendMessage(chat.sid, Msg("assistant", chat.fullResponse \o INTERRUPTED_MARKER,
                                      chat.diaryIds))
        /\ chat' = [chat EXCEPT !.ended = TRUE, !.pc = "ended"]
  /\ UNCHANGED genVars
  /\ UNCHANGED <<storeVars, svcVars, libVars>>

\* ------------------------------------------------------------------------
\* chatController.ts: getSession, removeSession and
\* getSessionContextEndpoint, one action per resolved await
\* ------------------------------------------------------------------------
SessionEndpoints == {"getSession", "removeSession", "getSessionContext"}

\* a request to one of the three handlers about to run
SessionRequest(endpoint, uid, sid, limit) ==
  [NoChat EXCEPT !.pc = "newSessionRequest", !.endpoint = endpoint, !.userId = uid,
                 !.session_id = sid, !.limit = limit]

\* res.status(200).json({ session }) and res.status(200).json({ context })
JsonWith(ch, code, sid, messages) ==
  [Json(ch, code) EXCEPT !.body = [session_id |-> sid, messages |-> messages]]

\* the handler up to getSessionById (chatController.ts:311-325, 379-393,
\* 428-444)
SessionRequested ==
  /\ chat.pc = "newSessionRequest"
  /\ chat' = IF chat.userId = 0 THEN Json(chat, 401)
             ELSE IF chat.session_id = "" THEN Json(chat, 400)
             ELSE [chat EXCEPT !.pc = "lookup"]
  /\ UNCHANGED <<genVars, sessions, dbFaults>>
  /\ UNCHANGED <<storeVars, svcVars, libVars>>

\* variant: the owner of the session is not compared with the caller
SessionLookedUpUnowned ==
  /\ chat.pc = "lookup"
  /\ \/ /\ DbFails
        /\ chat' = Json(chat, 500)
     \/ /\ UNCHANGED dbFaults
        /\ chat' =
             IF ~SessionExists(chat.session_id) THEN Json(chat, 404)
             ELSE IF chat.endpoint = "getSession"
               THEN JsonWith(chat, 200, chat.session_id, sessions[chat.session_id].messages)
             ELSE IF chat.endpoint = "removeSession" THEN [chat EXCEPT !.pc = "delete"]
             ELSE [chat EXCEPT !.pc = "context"]
  /\ UNCHANGED <<genVars, sessions>>
  /\ UNCHANGED <<storeVars, svcVars, libVars>>

\* getSessionById resolved or rejected (chatController.ts:326-346, 394-406,
\* 443-456): no row 404, the row of another user 403
SessionLookedUp ==
  /\ chat.pc = "lookup"
  /\ \/ /\ DbFails
        /\ chat' = Json(chat, 500)
     \/ /\ UNCHANGED dbFaults
        /\ chat' =
             IF ~SessionExists(chat.session_id) THEN Json(chat, 404)
             ELSE IF sessions[chat.session_id].user_id # chat.userId THEN Json(chat, 403)
             ELSE IF chat.endpoint = "getSession"
               THEN JsonWith(chat, 200, chat.session_id, sessions[chat.session_id].messages)
             ELSE IF chat.endpoint = "removeSession" THEN [chat EXCEPT !.pc = "delete"]
             ELSE [chat EXCEPT !.pc = "context"]
  /\ UNCHANGED <<genVars, sessions>>
  /\ UNCHANGED <<storeVars, svcVars, libVars>>

\* deleteSession resolved with true, the messages going with the row, or with
\* the false of its catch (chatController.ts:407-413, session.service:742-751)
SessionDeleted ==
  /\ chat.pc = "delete"
  /\ \/ /\ DbFails
        /\ chat' = Json(chat, 500)
        /\ UNCHANGED sessions
     \/ /\ UNCHANGED dbFaults
        /\ sessions' = [sessions EXCEPT ![chat.session_id] = [user_id |-> 0, messages |-> <<>>]]
        /\ chat' = Json(chat, 200)
  /\ UNCHANGED genVars
  /\ UNCHANGED <<storeVars, svcVars, libVars>>

\* getSessionContext resolved or rejected (chatController.ts:457-466,
\* session.service:816-831); getRecentMessages rejects a limit below 1
SessionContextRead ==
  /\ chat.pc = "context"
  /\ \/ /\ DbFails
        /\ chat' = Json(chat, 500)
     \/ /\ UNCHANGED dbFaults
        /\ chat' = IF chat.limit < 1 THEN Json(chat, 500)
                   ELSE JsonWith(chat, 200, chat.session_id,
                                 getRecentMessages(chat.session_id, chat.limit))
  /\ UNCHANGED <<genVars, sessions>>
  /\ UNCHANGED <<storeVars, svcVars, libVars>>

ChatStep ==
  \/ ChatStart
  \/ SessionResolved
  \/ UserSaved
  \/ RejectionSaved
  \/ RecentLoaded
  \/ ClientCloses
  \/ DiariesCounted
  \/ CacheSearched
  \/ ContextRetrieved
  \/ GenerateReturned
  \/ GenerateThrew
  \/ CtaAnalyzed
  \/ CacheStoreSettled
  \/ RagReturned
  \/ AssistantSaved
  \/ SummarizationChecked
  \/ PartialSaved

PriorTurns == <<Msg("user", <<"m0">>, <<>>), Msg("assistant", <<"r0">>, <<>>)>>

InitSessions(prior) ==
  [sid \in SessionIds |->
     IF sid = "s1" THEN [user_id |-> 1, messages |-> prior]
     ELSE [user_id |-> 2, messages |-> <<>>]]

\* ------------------------------------------------------------------------
\* The vector store and the semantic cache
\* ------------------------------------------------------------------------
EMBEDDING_DIMENSION == 1536
\* thresholds of the cache; similarities are in hundredths (0.92 is 92)
SIMILARITY_THRESHOLD == 92
CACHE_TTL_HOURS == 24
MAX_CACHE_ENTRIES_PER_USER == 100

\* diaries created in one behaviour
MaxDiaries == 2
\* cache rows inserted in one behaviour
MaxCacheRows == 2
\* clock advances in one behaviour
MaxTicks == 2
\* diaries deleted in one behaviour
MaxDeletes == 1

\* the embedding provider (external): the vector of a text, as the direction it
\* points to, one of four, and its length
ProviderEmbedding(text) ==
  [point |-> CASE text = "t1" -> 1 [] text = "t2" -> 2 [] text = "t3" -> 3 [] OTHER -> 4,
   len |-> EMBEDDING_DIMENSION]

\* 1 - (a <=> b): cosine similarity in hundredths
Similarity(a, b) ==
  LET d == IF a.point >= b.point THEN a.point - b.point ELSE b.point - a.point IN
  CASE d = 0 -> 100 [] d = 1 -> 95 [] d = 2 -> 92 [] OTHER -> 91

NoQuery == [point |-> 0, len |-> 0]

\* op, user_id and q are the operation and its arguments; ok and rows its outcome
NoResult == [op |-> "none", user_id |-> 0, q |-> NoQuery, ok |-> TRUE, rows |-> <<>>]

NoRange == [startDate |-> -1, endDate |-> -1]

\* what a diary operation did: the response of createDiary (ok: status 200),
\* or how the upsert of a diary's embedding ended (ok: the row was written)
DiaryResult(op, diary_id, ok) ==
  [op |-> op, user_id |-> 0, q |-> NoQuery, ok |-> ok, rows |-> <<>>, diary_id |-> diary_id]

\* timestamps are hours; endOfDay.setHours(23, 59, 59, 999) (rag.service.ts:313-314)
EndOfDay(t) == (t \div 24) * 24 + 23

\* FROM diary_embeddings de JOIN "Diary" d ON de.diary_id = d.diary_id
Joined ==
  { [diary_id |-> d.diary_id, user_id |-> d.user_id, date |-> d.date,
     embedding |-> e.embedding] :
      <<d, e>> \in { x \in diaries \X embeddings : x[1].diary_id = x[2].diary_id } }

\* the row a search returns; user_id is not in the SELECT list, it is kept to
\* state whose diary the row is
ResultRow(r, q) ==
  [diary_id |-> r.diary_id, user_id |-> r.user_id, date |-> r.date,
   score |-> Similarity(r.embedding, q)]

Min(a, b) == IF a <= b THEN a ELSE b

\* variant: the rows come as they are stored, all of them
Unordered(rows, k) ==
  { sq \in [1..Cardinality(rows) -> rows] : \A i, j \in DOMAIN sq : i < j => sq[i] # sq[j] }

\* ORDER BY distance ASC LIMIT k: the sequences the database may return (rows
\* at equal distance come in any order)
OrderedLimit(rows, k) ==
  LET n == Min(k, Cardinality(rows)) IN
  { sq \in [1..n -> rows] :
      /\ \A i, j \in 1..n : i < j => sq[i] # sq[j] /\ sq[i].score >= sq[j].score
      /\ \A r \in rows : (\A i \in 1..n : sq[i] # r) => \A i \in 1..n : sq[i].score >= r.score }

\* what a search call did: its arguments, whether it returned (ok) or threw,
\* and the rows it returned
SearchResult(userId, q, topK, range, ok, rows) ==
  [op |-> "search", user_id |-> userId, q |-> q, topK |-> topK, range |-> range,
   ok |-> ok, rows |-> rows]

\* variant: the owner condition is left out of the WHERE clause
OwnedByAnyone(rows, userId) == rows

\* WHERE d.user_id = ${userId}  (embedding.service.ts:155)
OwnedBy(rows, userId) == { r \in rows : r.user_id = userId }

\* embedding.service.ts:121-168: the outcomes of searchSimilarDiaries
searchSimilarDiaries(userId, q, topK) ==
  IF q.len # EMBEDDING_DIMENSION \/ topK < 1
    THEN { SearchResult(userId, q, topK, NoRange, FALSE, <<>>) }
    ELSE { SearchResult(userId, q, topK, NoRange, TRUE, sq) :
             sq \in OrderedLimit({ ResultRow(r, q) : r \in OwnedBy(Joined, userId) }, topK) }

\* variant: the dates are left out of the WHERE clause
OwnedOfAnyDate(rows, userId, range) == { r \in rows : r.user_id = userId }

\* WHERE d.user_id = ${userId} AND d.date >= start AND d.date <= endOfDay
\* (rag.service.ts:330-334)
OwnedInRange(rows, userId, range) ==
  { r \in rows : r.user_id = userId /\ r.date >= range.startDate
                 /\ r.date <= EndOfDay(range.endDate) }

\* rag.service.ts:296-346: without a range the standard search; with one, the
\* query is sent as it is, and the database rejects a negative LIMIT and a
\* vector of another dimension once it compares it with a stored one
searchDiariesWithDateFilter(userId, q, topK, range) ==
  IF range = NoRange THEN searchSimilarDiaries(userId, q, topK)
  ELSE IF topK < 0 \/ (q.len # EMBEDDING_DIMENSION /\ OwnedInRange(Joined, userId, range) # {})
    THEN { SearchResult(userId, q, topK, range, FALSE, <<>>) }
    ELSE { SearchResult(userId, q, topK, range, TRUE, sq) :
             sq \in OrderedLimit({ ResultRow(r, q) : r \in OwnedInRange(Joined, userId, range) },
                                 topK) }

\* the store operations leave the generation and the chat request alone
StoreFrame == UNCHANGED <<genVars, chatVars, svcVars, libVars>>

\* variant: the response waits for the embedding, and fails when it fails
CreateDiaryAwaited(u, text, date) ==
  /\ clock.diaries < MaxDiaries
  /\ LET id == clock.diaries + 1 IN
       /\ diaries' = diaries \cup {[diary_id |-> id, user_id |-> u, date |-> date]}
       /\ \/ /\ embeddings' = embeddings
                   \cup {[diary_id |-> id, embedding |-> ProviderEmbedding(text)]}
             /\ found' = DiaryResult("createDiary", id, TRUE)
          \/ /\ embeddings' = embeddings
             /\ found' = DiaryResult("createDiary", id, FALSE)
  /\ clock' = [clock EXCEPT !.diaries = @ + 1]
  /\ UNCHANGED <<jobs, cache>>
  /\ StoreFrame

\* createDiary (diaryController.ts:199-244): the row is saved, the embedding
\* job is launched without being awaited, and the response is sent
CreateDiary(u, text, date) ==
  /\ clock.diaries < MaxDiaries
  /\ LET id == clock.diaries + 1 IN
       /\ diaries' = diaries \cup {[diary_id |-> id, user_id |-> u, date |-> date]}
       /\ jobs' = jobs \cup {[kind |-> "embed", diary_id |-> id, content |-> text]}
       /\ found' = DiaryResult("createDiary", id, TRUE)
  /\ clock' = [clock EXCEPT !.diaries = @ + 1]
  /\ UNCHANGED <<embeddings, cache>>
  /\ StoreFrame

\* variant: diary_embeddings has no foreign key
EmbeddingStoredUnchecked(j) ==
  /\ j \in jobs /\ j.kind = "embed"
  /\ embeddings' = { e \in embeddings : e.diary_id # j.diary_id }
                      \cup {[diary_id |-> j.diary_id, embedding |-> ProviderEmbedding(j.content)]}
  /\ jobs' = jobs \ {j}
  /\ found' = DiaryResult("upsert", j.diary_id, TRUE)
  /\ UNCHANGED <<diaries, cache, clock>>
  /\ StoreFrame

\* upsertDiaryEmbedding completes (embedding.service.ts:98-111); the foreign
\* key rejects the row of a diary that is gone, and generateEmbeddingAsync
\* swallows that (diaryController.ts:172-181)
EmbeddingStored(j) ==
  /\ j \in jobs /\ j.kind = "embed"
  /\ embeddings' =
       IF \E d \in diaries : d.diary_id = j.diary_id
         THEN { e \in embeddings : e.diary_id # j.diary_id }
              \cup {[diary_id |-> j.diary_id, embedding |-> ProviderEmbedding(j.content)]}
         ELSE embeddings
  /\ jobs' = jobs \ {j}
  /\ found' = DiaryResult("upsert", j.diary_id, \E d \in diaries : d.diary_id = j.diary_id)
  /\ UNCHANGED <<diaries, cache, clock>>
  /\ StoreFrame

\* createEmbedding gives up; generateEmbeddingAsync swallows the error
EmbeddingFailed(j) ==
  /\ j \in jobs /\ j.kind = "embed"
  /\ jobs' = jobs \ {j}
  /\ found' = DiaryResult("embedFailed", j.diary_id, FALSE)
  /\ UNCHANGED <<diaries, embeddings, cache, clock>>
  /\ StoreFrame

\* deleteDiary (diaryController.ts:331-354): the embedding cleanup is launched
\* without being awaited, then the row delete is issued; nothing else is called
DeleteDiary(id) ==
  /\ clock.deletes < MaxDeletes
  /\ \E d \in diaries : d.diary_id = id
  /\ \A j \in jobs : j.kind = "embed" \/ j.diary_id # id
  /\ jobs' = jobs \cup {[kind |-> "cleanup", diary_id |-> id, content |-> ""],
                        [kind |-> "delete", diary_id |-> id, content |-> ""]}
  /\ clock' = [clock EXCEPT !.deletes = @ + 1]
  /\ found' = NoResult
  /\ UNCHANGED <<diaries, embeddings, cache>>
  /\ StoreFrame

\* deleteDiaryEmbedding completes (embedding.service.ts:175-181)
EmbeddingCleaned(j) ==
  /\ j \in jobs /\ j.kind = "cleanup"
  /\ embeddings' = { e \in embeddings : e.diary_id # j.diary_id }
  /\ jobs' = jobs \ {j}
  /\ found' = NoResult
  /\ UNCHANGED <<diaries, cache, clock>>
  /\ StoreFrame

\* deleteDiaryById completes: the row goes, and with it its embedding
\* (ON DELETE CASCADE); semantic_cache.diary_ids is no foreign key
DiaryRowDeleted(j) ==
  /\ j \in jobs /\ j.kind = "delete"
  /\ diaries' = { d \in diaries : d.diary_id # j.diary_id }
  /\ embeddings' = { e \in embeddings : e.diary_id # j.diary_id }
  /\ jobs' = jobs \ {j}
  /\ found' = NoResult
  /\ UNCHANGED <<cache, clock>>
  /\ StoreFrame

\* a vector search, as retrieveContext and the searchDiaries tool issue it
Search(u, q, topK, range) ==
  /\ found' \in searchDiariesWithDateFilter(u, q, topK, range)
  /\ UNCHANGED <<diaries, embeddings, jobs, cache, clock>>
  /\ StoreFrame

\* variant: the lookup is not restricted to the user's rows
CachedForAnyone(rows, userId) == rows

\* WHERE user_id = ${userId}  (semantic-cache.service.ts:73)
CachedFor(rows, userId) == { r \in rows : r.user_id = userId }

\* variant: rows never expire
NeverExpires(created_at, now) == TRUE

\* AND created_at > ${ttlCutoff}  (semantic-cache.service.ts:51-52, 74)
Fresh(created_at, now) == created_at > now - CACHE_TTL_HOURS

\* AND 1 - (query_embedding <=> q) >= ${SIMILARITY_THRESHOLD}
SimilarEnough(similarity) == similarity >= SIMILARITY_THRESHOLD

\* semantic-cache.service.ts:64-78: the rows the lookup may return
CacheCandidates(userId, q) ==
  { [id |-> r.id, user_id |-> r.user_id, diary_ids |-> r.diary_ids,
     created_at |-> r.created_at, score |-> Similarity(r.query_embedding, q)] :
      r \in { x \in CachedFor(cache, userId) :
                /\ Fresh(x.created_at, clock.now)
                /\ SimilarEnough(Similarity(x.query_embedding, q)) } }

\* searchCache (semantic-cache.service.ts:40-107)
SearchCache(u, text) ==
  /\ \/ \E sq \in OrderedLimit(CacheCandidates(u, ProviderEmbedding(text)), 1) :
          found' = [op |-> "cache", user_id |-> u, q |-> ProviderEmbedding(text),
                    ok |-> sq # <<>>, rows |-> sq]
     \/ \* createEmbedding or the query failed: answered as a miss
        found' = [op |-> "cache_failed", user_id |-> u, q |-> ProviderEmbedding(text),
                  ok |-> FALSE, rows |-> <<>>]
  /\ UNCHANGED <<diaries, embeddings, jobs, cache, clock>>
  /\ StoreFrame

\* cleanupUserCache (semantic-cache.service.ts:154-180): the oldest rows of the
\* user beyond the cap
Evicted(rows, userId) ==
  LET mine == CachedFor(rows, userId)
      deleteCount == Cardinality(mine) - MAX_CACHE_ENTRIES_PER_USER IN
  IF deleteCount <= 0 THEN {}
  ELSE { r \in mine : Cardinality({ o \in mine : o.id < r.id }) < deleteCount }

\* storeInCache (semantic-cache.service.ts:117-148)
StoreInCache(u, text, queryLength, responseLength, ids) ==
  /\ clock.rows < MaxCacheRows
  /\ IF queryLength < 5 \/ responseLength < 20
       THEN UNCHANGED <<cache, clock>>
       ELSE LET row == [id |-> clock.rows + 1, user_id |-> u,
                        query_embedding |-> ProviderEmbedding(text), diary_ids |-> ids,
                        created_at |-> clock.now]
                inserted == cache \cup {row}
            IN /\ cache' = inserted \ Evicted(inserted, u)
               /\ clock' = [clock EXCEPT !.rows = @ + 1]
  /\ found' = [op |-> "store", user_id |-> u, q |-> ProviderEmbedding(text),
               ok |-> TRUE, rows |-> <<>>]
  /\ UNCHANGED <<diaries, embeddings, jobs>>
  /\ StoreFrame

\* time passes
Tick(h) ==
  /\ clock.ticks < MaxTicks
  /\ clock' = [clock EXCEPT !.now = @ + h, !.ticks = @ + 1]
  /\ found' = NoResult
  /\ UNCHANGED <<diaries, embeddings, jobs, cache>>
  /\ StoreFrame

\* ------------------------------------------------------------------------
\* session.service: chat sessions and their messages, with their timestamps
\* ------------------------------------------------------------------------
\* today.setHours(0, 0, 0, 0): the clock counts hours
HoursPerDay == 24
\* const keepRecent = 5
keepRecent == 5

\* saveMessage calls, clock advances (while sessions are looked up, and while
\* messages are handled), sessions created and deactivated in a behaviour
MaxSaves == 1
MaxSvcTicks == 2
MaxMessageTicks == 1
MaxNewSessions == 2
MaxDeactivations == 1

\* the summary column: null, or a text
NoSummary == [null |-> TRUE, text |-> <<>>]
SummaryText(text) == [null |-> FALSE, text |-> text]

\* prisma.chatSession.create: title null, is_active true, both timestamps now
SessionRow(id, u, at) ==
  [session_id |-> id, user_id |-> u, summary |-> NoSummary, is_active |-> TRUE,
   created_at |-> at, updated_at |-> at]

\* prisma.chatMessage.create
MessageRow(id, sid, at) == [message_id |-> id, session_id |-> sid, created_at |-> at]

NoReturn == [op |-> "none"]

\* WHERE session_id = sessionId
MessagesOf(rows, sid) == { m \in rows : m.session_id = sid }

\* getMessageCount
getMessageCount(sid) == Cardinality(MessagesOf(chatMessages, sid))

\* the rows with fewer than k newer rows: the order of the query turned round
NewestTaken(S, k) ==
  { { m \in S : Cardinality({ x \in S : x.created_at > m.created_at }) < k } }

\* the rows of S that one `take: k` may return under ORDER BY created_at ASC:
\* every row older than the k-th timestamp, and as many rows of that
\* timestamp as are missing, whichever the database picks
Oldest(S, k) ==
  IF k >= Cardinality(S) THEN {S}
  ELSE IF k <= 0 THEN {{}}
  ELSE LET before(t) == { m \in S : m.created_at < t }
           at(t) == { m \in S : m.created_at = t }
           t == CHOOSE x \in { m.created_at : m \in S } :
                  /\ Cardinality(before(x)) < k
                  /\ Cardinality(before(x)) + Cardinality(at(x)) >= k
       IN { before(t) \cup E :
              E \in { F \in SUBSET at(t) : Cardinality(F) = k - Cardinality(before(t)) } }

\* the same under ORDER BY created_at DESC
Newest(S, k) ==
  IF k >= Cardinality(S) THEN {S}
  ELSE IF k <= 0 THEN {{}}
  ELSE LET after(t) == { m \in S : m.created_at > t }
           at(t) == { m \in S : m.created_at = t }
           t == CHOOSE x \in { m.created_at : m \in S } :
                  /\ Cardinality(after(x)) < k
                  /\ Cardinality(after(x)) + Cardinality(at(x)) >= k
       IN { after(t) \cup E :
              E \in { F \in SUBSET at(t) : Cardinality(F) = k - Cardinality(after(t)) } }

\* the orders in which the database may return the rows T under
\* ORDER BY created_at DESC
DescOrders(T) ==
  { s \in [1..Cardinality(T) -> T] :
      /\ \A i, j \in 1..Cardinality(T) : i # j => s[i] # s[j]
      /\ \A i \in 1..(Cardinality(T) - 1) : s[i].created_at >= s[i + 1].created_at }

\* the rows as the query returned them, newest first
Unreversed(s) == s

\* messages.reverse()
Reverse(s) == [i \in 1..Len(s) |-> s[Len(s) + 1 - i]]

\* a write to the tables overlaps the getOrCreateSession calls under way
Disturbed(calls) == { [c EXCEPT !.overlapped = TRUE] : c \in calls }

\* summarizeOldMessages runs that may be under way at once
MaxSummRuns == 2

SummRuns == 1..MaxSummRuns

\* a write to the messages of a session overlaps the summarization of it
Overlapped(s, sid) ==
  IF s.pc # "idle" /\ s.sid = sid THEN [s EXCEPT !.concurrent = TRUE] ELSE s

SvcFrame == UNCHANGED <<genVars, chatVars, storeVars, libVars>>

\* saveMessage (session.service:579-608): the row is created, then the
\* session's updated_at is bumped
SaveMessage(sid) ==
  /\ svcClock.saves < MaxSaves
  /\ \E s \in chatSessions : s.session_id = sid
  /\ chatMessages' = chatMessages \cup {MessageRow(svcClock.messages + 1, sid, svcClock.now)}
  /\ chatSessions' = { IF s.session_id = sid THEN [s EXCEPT !.updated_at = svcClock.now] ELSE s :
                         s \in chatSessions }
  /\ svcClock' = [svcClock EXCEPT !.saves = @ + 1, !.messages = @ + 1]
  /\ summ' = [r \in SummRuns |-> Overlapped(summ[r], sid)]
  /\ goc' = Disturbed(goc)
  /\ UNCHANGED ret
  /\ SvcFrame

\* getRecentMessages (session.service:617-638)
GetRecentMessages(sid, limit) ==
  /\ IF limit < 1
       THEN ret' = [op |-> "recent", sid |-> sid, limit |-> limit, threw |-> TRUE,
                    rows |-> <<>>, before |-> chatMessages]
       ELSE \E T \in Newest(MessagesOf(chatMessages, sid), limit) :
              \E messages \in DescOrders(T) :
                ret' = [op |-> "recent", sid |-> sid, limit |-> limit, threw |-> FALSE,
                        rows |-> Reverse(messages), before |-> chatMessages]
  /\ UNCHANGED <<chatSessions, chatMessages, svcClock, summ, goc>>
  /\ SvcFrame

\* needsSummarization (session.service:732-735)
NeedsSummarization(sid) ==
  /\ ret' = [op |-> "needs", sid |-> sid, n |-> getMessageCount(sid),
             value |-> getMessageCount(sid) > SUMMARIZATION_THRESHOLD]
  /\ UNCHANGED <<chatSessions, chatMessages, svcClock, summ, goc>>
  /\ SvcFrame

\* the replies of the summary model: a text, or no content (null, '', or no
\* choice at all)
ModelReplies == { <<"s1", "s2">>, <<>> }

SummIdle ==
  [pc |-> "idle", sid |-> 0, messageCount |-> 0, before |-> {},
   messagesToSummarize |-> {}, summary |-> <<>>, modelCalls |-> 0, concurrent |-> FALSE]

NoRuns == [r \in SummRuns |-> SummIdle]

\* the summary column of a session
SummaryOf(rows, sid) == (CHOOSE s \in rows : s.session_id = sid).summary

\* what a summarizeOldMessages call returns, with the rows as they are then
SummarizeReturn(s, sid, n, kind, text, sessionRows, messageRows) ==
  [op |-> "summarize", sid |-> sid, n |-> n, threw |-> kind = "threw",
   null |-> kind = "null", summary |-> text,
   stored |-> SummaryOf(sessionRows, sid),
   before |-> s.before, after |-> MessagesOf(messageRows, sid),
   modelCalls |-> s.modelCalls, concurrent |-> s.concurrent]

\* the summary model is asked whatever the count
NeverBelowThreshold(messageCount) == FALSE

\* if (messageCount <= SUMMARIZATION_THRESHOLD) return null
BelowThreshold(messageCount) == messageCount <= SUMMARIZATION_THRESHOLD

\* summarizeOldMessages up to the count (session.service:657-663)
SummarizeStart(r, sid) ==
  /\ summ[r].pc = "idle"
  /\ \E s \in chatSessions : s.session_id = sid
  /\ LET messageCount == getMessageCount(sid) IN
     IF BelowThreshold(messageCount)
       THEN /\ ret' = SummarizeReturn([SummIdle EXCEPT !.before = MessagesOf(chatMessages, sid)],
                                      sid, messageCount, "null", <<>>, chatSessions, chatMessages)
            /\ UNCHANGED summ
       ELSE /\ summ' = [summ EXCEPT ![r] =
                          [SummIdle EXCEPT !.pc = "fetch", !.sid = sid,
                                           !.messageCount = messageCount,
                                           !.before = MessagesOf(chatMessages, sid)]]
            /\ UNCHANGED ret
  /\ UNCHANGED <<chatSessions, chatMessages, svcClock, goc>>
  /\ SvcFrame

\* findMany ordered by created_at asc, take messageCount - keepRecent
\* (session.service:666-675)
SummarizeFetched(r) ==
  /\ summ[r].pc = "fetch"
  /\ \E T \in Oldest(MessagesOf(chatMessages, summ[r].sid),
                     summ[r].messageCount - keepRecent) :
       IF T = {}
         THEN /\ ret' = SummarizeReturn(summ[r], summ[r].sid, summ[r].messageCount, "null",
                                        <<>>, chatSessions, chatMessages)
              /\ summ' = [summ EXCEPT ![r] = SummIdle]
         ELSE /\ summ' = [summ EXCEPT ![r].pc = "model", ![r].messagesToSummarize = T]
              /\ UNCHANGED ret
  /\ UNCHANGED <<chatSessions, chatMessages, svcClock, goc>>
  /\ SvcFrame

\* openai.chat.completions.create resolved or rejected; the summary is
\* response.choices[0]?.message?.content || ''  (session.service:686-708)
SummaryGenerated(r) ==
  /\ summ[r].pc = "model"
  /\ \/ \E content \in ModelReplies :
          /\ summ' = [summ EXCEPT ![r].pc = "store", ![r].summary = content,
                                  ![r].modelCalls = @ + 1]
          /\ UNCHANGED ret
     \/ /\ ret' = SummarizeReturn([summ[r] EXCEPT !.modelCalls = @ + 1], summ[r].sid,
                                  summ[r].messageCount, "threw", <<>>,
                                  chatSessions, chatMessages)
        /\ summ' = [summ EXCEPT ![r] = SummIdle]
  /\ UNCHANGED <<chatSessions, chatMessages, svcClock, goc>>
  /\ SvcFrame

\* variant: the messages are deleted before the summary is stored
SummaryStoredAfterDelete(r) ==
  /\ summ[r].pc = "store"
  /\ chatMessages' = { m \in chatMessages :
                         \A d \in summ[r].messagesToSummarize : d.message_id # m.message_id }
  /\ ret' = SummarizeReturn(summ[r], summ[r].sid, summ[r].messageCount, "threw", <<>>,
                            chatSessions, chatMessages')
  /\ summ' = [q \in SummRuns |->
                IF q = r THEN SummIdle ELSE Overlapped(summ[q], summ[r].sid)]
  /\ UNCHANGED <<chatSessions, svcClock, goc>>
  /\ SvcFrame

\* chatSession.update({ data: { summary } }) resolved or rejected
\* (session.service:711-714)
SummaryStored(r) ==
  /\ summ[r].pc = "store"
  /\ \/ /\ chatSessions' = { IF s.session_id = summ[r].sid
                               THEN [s EXCEPT !.summary = SummaryText(summ[r].summary)]
                               ELSE s :
                             s \in chatSessions }
        /\ summ' = [summ EXCEPT ![r].pc = "delete"]
        /\ goc' = Disturbed(goc)
        /\ UNCHANGED ret
     \/ /\ ret' = SummarizeReturn(summ[r], summ[r].sid, summ[r].messageCount, "threw", <<>>,
                                  chatSessions, chatMessages)
        /\ summ' = [summ EXCEPT ![r] = SummIdle]
        /\ UNCHANGED <<chatSessions, goc>>
  /\ UNCHANGED <<chatMessages, svcClock>>
  /\ SvcFrame

\* chatMessage.deleteMany of the summarized ids resolved, or rejected; return
\* summary (session.service:717-724). The rows deleted are written under any
\* other run of the session
MessagesDeleted(r) ==
  /\ summ[r].pc = "delete"
  /\ \/ /\ chatMessages' = { m \in chatMessages :
                               \A d \in summ[r].messagesToSummarize :
                                 d.message_id # m.message_id }
        /\ ret' = SummarizeReturn(summ[r], summ[r].sid, summ[r].messageCount, "text",
                                  summ[r].summary, chatSessions, chatMessages')
        /\ summ' = [q \in SummRuns |->
                      IF q = r THEN SummIdle ELSE Overlapped(summ[q], summ[r].sid)]
     \/ /\ ret' = SummarizeReturn(summ[r], summ[r].sid, summ[r].messageCount, "threw", <<>>,
                                  chatSessions, chatMessages)
        /\ summ' = [summ EXCEPT ![r] = SummIdle]
        /\ UNCHANGED chatMessages
  /\ UNCHANGED <<chatSessions, svcClock, goc>>
  /\ SvcFrame

\* today = new Date(); today.setHours(0, 0, 0, 0)
Midnight(now) == now - (now % HoursPerDay)

\* every session of the owner, whenever it was created
SessionsOfAnyDay(rows, u, today) == { s \in rows : s.user_id = u /\ s.is_active }

\* where: { user_id, is_active: true, created_at: { gte: today } }
SessionsOfToday(rows, u, today) ==
  { s \in rows : s.user_id = u /\ s.is_active /\ s.created_at >= today }

\* orderBy created_at desc, findFirst: a row no other row is newer than
MostRecent(S) == { s \in S : \A t \in S : t.created_at <= s.created_at }

\* getOrCreateSession up to findFirst (session.service:428-457): an existing
\* session is returned, or the call goes on to create one
GetOrCreateFind(u) ==
  LET today == Midnight(svcClock.now)
      existing == SessionsOfToday(chatSessions, u, today)
  IN
  /\ \/ /\ existing # {}
        /\ \E s \in MostRecent(existing) :
             ret' = [op |-> "getOrCreate", u |-> u, session |-> s, created |-> FALSE,
                     sequential |-> goc = {}, today |-> today,
                     before |-> chatSessions, after |-> chatSessions]
        /\ UNCHANGED <<goc, svcClock>>
     \/ /\ existing = {}
        /\ svcClock.sessions + Cardinality(goc) < MaxNewSessions
        /\ goc' = Disturbed(goc) \cup
                    {[id |-> svcClock.calls + 1, u |-> u, today |-> today,
                      before |-> chatSessions, overlapped |-> goc # {}]}
        /\ svcClock' = [svcClock EXCEPT !.calls = @ + 1]
        /\ UNCHANGED ret
  /\ UNCHANGED <<chatSessions, chatMessages, summ>>
  /\ SvcFrame

\* variant: the create does nothing when the owner has a session of today by
\* then, and that session is returned
GetOrCreateCreateOnce(c) ==
  /\ c \in goc
  /\ LET existing == SessionsOfToday(chatSessions, c.u, c.today)
         row == SessionRow(svcClock.sessions + 1, c.u, svcClock.now) IN
       IF existing # {}
         THEN /\ \E s \in MostRecent(existing) :
                   ret' = [op |-> "getOrCreate", u |-> c.u, session |-> s, created |-> FALSE,
                           sequential |-> ~c.overlapped, today |-> c.today,
                           before |-> c.before, after |-> chatSessions]
              /\ UNCHANGED <<chatSessions, svcClock>>
         ELSE /\ chatSessions' = chatSessions \cup {row}
              /\ ret' = [op |-> "getOrCreate", u |-> c.u, session |-> row, created |-> TRUE,
                         sequential |-> ~c.overlapped, today |-> c.today,
                         before |-> c.before, after |-> chatSessions \cup {row}]
              /\ svcClock' = [svcClock EXCEPT !.sessions = @ + 1]
  /\ goc' = goc \ {c}
  /\ UNCHANGED <<chatMessages, summ>>
  /\ SvcFrame

\* prisma.chatSession.create resolved (session.service:459-477)
GetOrCreateCreate(c) ==
  /\ c \in goc
  /\ LET row == SessionRow(svcClock.sessions + 1, c.u, svcClock.now) IN
       /\ chatSessions' = chatSessions \cup {row}
       /\ ret' = [op |-> "getOrCreate", u |-> c.u, session |-> row, created |-> TRUE,
                  sequential |-> ~c.overlapped, today |-> c.today,
                  before |-> c.before, after |-> chatSessions \cup {row}]
  /\ goc' = goc \ {c}
  /\ svcClock' = [svcClock EXCEPT !.sessions = @ + 1]
  /\ UNCHANGED <<chatMessages, summ>>
  /\ SvcFrame

\* deactivateSession (session.service:759-778)
DeactivateSession(sid) ==
  /\ svcClock.deactivations < MaxDeactivations
  /\ \E s \in chatSessions : s.session_id = sid /\ s.is_active
  /\ chatSessions' = { IF s.session_id = sid THEN [s EXCEPT !.is_active = FALSE] ELSE s :
                         s \in chatSessions }
  /\ svcClock' = [svcClock EXCEPT !.deactivations = @ + 1]
  /\ goc' = Disturbed(goc)
  /\ UNCHANGED <<chatMessages, summ, ret>>
  /\ SvcFrame

\* time passes
SvcTick(h) ==
  /\ svcClock.ticks < svcClock.tickLimit
  /\ svcClock' = [svcClock EXCEPT !.now = @ + h, !.ticks = @ + 1]
  /\ UNCHANGED <<chatSessions, chatMessages, summ, goc, ret>>
  /\ SvcFrame

SvcClockAt(now, messageRows, sessionRows, tickLimit) ==
  [now |-> now, ticks |-> 0, tickLimit |-> tickLimit, saves |-> 0,
   messages |-> messageRows, sessions |-> sessionRows, calls |-> 0, deactivations |-> 0]

SvcIdle ==
  /\ chatSessions = {} /\ chatMessages = {}
  /\ svcClock = SvcClockAt(0, 0, 0, 0)
  /\ summ = NoRuns /\ goc = {} /\ ret = NoReturn

\* ------------------------------------------------------------------------
\* embedding.service: createEmbedding and its retries
\* ------------------------------------------------------------------------
\* MAX_RETRIES and RETRY_DELAY_MS of embedding.service.ts:17-18
EMBED_MAX_RETRIES == 3
EMBED_RETRY_DELAY_MS == 1000

\* what axios.post may do: resolve with a vector of some length, or reject
\* with the status of the response (0: no response, a connection failure or
\* a timeout)
VectorReply(len) == [kind |-> "vector", len |-> len, status |-> 200]
ErrorReply(status) == [kind |-> "error", len |-> 0, status |-> status]
EmbedReplies ==
  { VectorReply(EMBEDDING_DIMENSION), VectorReply(3) }
    \cup { ErrorReply(s) : s \in {0, 400, 429, 500} }

NoFailure == [kind |-> "none", len |-> 0, status |-> 0]

\* the errors createEmbedding throws: what the message says, and the failure
\* whose message it carries
EmbedError(kind, cause) == [kind |-> kind, cause |-> cause]

EmbedNotCalled ==
  [pc |-> "idle", text |-> <<>>, attempt |-> 0, replies |-> <<>>, delays |-> <<>>,
   lastError |-> NoFailure, thrown |-> EmbedError("none", NoFailure)]

\* variant: every failure is retried
RetryEveryStatus(status) == FALSE

\* error.response?.status && status >= 400 && status < 500 && status !== 429
IsClientError(status) == status # 0 /\ status >= 400 /\ status < 500 /\ status # 429

\* Array.isArray(embedding) && embedding.length === EMBEDDING_DIMENSION
ValidEmbedding(reply) == reply.kind = "vector" /\ reply.len = EMBEDDING_DIMENSION

\* what the try block ends with: the reply of the provider, or the Error
\* thrown inside it for a vector of another length (which has no response)
Caught(reply) ==
  IF reply.kind = "vector" THEN [kind |-> "dimension", len |-> reply.len, status |-> 0]
  ELSE reply

EmbFrame == UNCHANGED <<genVars, chatVars, storeVars, svcVars, rr, storing, trig>>

\* createEmbedding up to the loop (embedding.service.ts:34-46)
EmbedStart(text, apiKey) ==
  /\ emb.pc = "idle"
  /\ emb' =
       IF Trim(text) = <<>>
         THEN [EmbedNotCalled EXCEPT !.pc = "threw", !.text = text,
                                     !.thrown = EmbedError("empty", NoFailure)]
       ELSE IF ~apiKey
         THEN [EmbedNotCalled EXCEPT !.pc = "threw", !.text = text,
                                     !.thrown = EmbedError("config", NoFailure)]
       ELSE [EmbedNotCalled EXCEPT !.pc = "request", !.text = text, !.attempt = 1]
  /\ EmbFrame

\* one pass of the loop up to its await (embedding.service.ts:47-88): the
\* request is answered, and the catch block decides
EmbedAnswered(reply) ==
  /\ emb.pc = "request"
  /\ LET replies == Append(emb.replies, reply)
         error == Caught(reply)
     IN
     emb' =
       IF ValidEmbedding(reply)
         THEN [emb EXCEPT !.pc = "returned", !.replies = replies]
       ELSE IF IsClientError(error.status)
         THEN [emb EXCEPT !.pc = "threw", !.replies = replies, !.lastError = error,
                          !.thrown = EmbedError("api", error)]
       ELSE IF emb.attempt < EMBED_MAX_RETRIES
         THEN [emb EXCEPT !.pc = "wait", !.replies = replies, !.lastError = error,
                          !.delays = Append(@, EMBED_RETRY_DELAY_MS * emb.attempt)]
       ELSE [emb EXCEPT !.pc = "threw", !.replies = replies, !.lastError = error,
                        !.attempt = @ + 1, !.thrown = EmbedError("exhausted", error)]
  /\ EmbFrame

\* the timer of line 83 fires: attempt++ and the next pass
EmbedDelayElapsed ==
  /\ emb.pc = "wait"
  /\ emb' = [emb EXCEPT !.pc = "request", !.attempt = @ + 1]
  /\ EmbFrame


\* ------------------------------------------------------------------------
\* reranker.service: the model-based and the heuristic reranking
\* ------------------------------------------------------------------------
MAX_DIARIES_TO_RERANK == 10

\* A candidate as the search returned it. Scores are in thousandths. In place
\* of title, content, color and date the candidate carries what the heuristic
\* derives from them for the query at hand: how many query words its title
\* and its content contain, whether the query has a word of its mood, and its
\* age in days.
Candidate(id, score, titleHits, contentHits, moodHit, days) ==
  [diary_id |-> id, score |-> score, titleHits |-> titleHits,
   contentHits |-> contentHits, moodHit |-> moodHit, days |-> days]

RerankResult(diary, relevanceScore, reason) ==
  [diary |-> diary, relevanceScore |-> relevanceScore, reason |-> reason]

\* diaries.map(diary => ({ diary, relevanceScore: diary.score, reason }))
VectorScores(candidates, reason) ==
  [i \in DOMAIN candidates |-> RerankResult(candidates[i], candidates[i].score, reason)]

\* slice(0, k)
Slice(s, k) == SubSeq(s, 1, Min(k, Len(s)))

\* Array.prototype.sort((a, b) => b.relevanceScore - a.relevanceScore): stable,
\* highest first
RECURSIVE SortByRelevance(_)
SortByRelevance(s) ==
  IF s = <<>> THEN <<>>
  ELSE LET i == CHOOSE k \in DOMAIN s :
                  /\ \A j \in DOMAIN s : s[j].relevanceScore <= s[k].relevanceScore
                  /\ \A j \in 1..(k - 1) : s[j].relevanceScore < s[k].relevanceScore
       IN <<s[i]>> \o SortByRelevance(SubSeq(s, 1, i - 1) \o SubSeq(s, i + 1, Len(s)))

\* Math.max(0, 0.1 - (daysSinceEntry / 365) * 0.1)
RecencyBonus(days) ==
  LET b == 100 - (days * 100) \div 365 IN IF b > 0 THEN b ELSE 0

\* 0.15 for each query word in the title, 0.05 for each in the content, 0.1
\* when the query names the diary's mood
BonusScore(diary) ==
  150 * diary.titleHits + 50 * diary.contentHits + (IF diary.moodHit THEN 100 ELSE 0)

\* Math.min(1, diary.score + bonusScore + recencyBonus)
FinalScore(diary) == Min(1000, diary.score + BonusScore(diary) + RecencyBonus(diary.days))

\* rerankDiariesFast (reranker.service.ts:219-276)
rerankDiariesFast(candidates, topK) ==
  Slice(SortByRelevance([i \in DOMAIN candidates |->
                           RerankResult(candidates[i], FinalScore(candidates[i]),
                                        "Vector and bonus")]), topK)

\* the answers of the rerank model: nothing, or relevance scores (1-10) for
\* some diary ids
NoRankings == [kind |-> "empty", rankings |-> <<>>]
Rankings(r) == [kind |-> "rankings", rankings |-> r]
RerankReplies ==
  { NoRankings,
    Rankings(<<[diaryId |-> 1, relevanceScore |-> 2], [diaryId |-> 2, relevanceScore |-> 9],
               [diaryId |-> 3, relevanceScore |-> 5], [diaryId |-> 4, relevanceScore |-> 5]>>),
    Rankings(<<[diaryId |-> 3, relevanceScore |-> 10]>>) }

\* { diary, relevanceScore: ranking?.score ?? diary.score, reason: ... }, the
\* score being relevanceScore / 10; a later entry of the rankings for the same
\* id replaces an earlier one
Ranked(diary, rankings) ==
  LET hits == { i \in DOMAIN rankings : rankings[i].diaryId = diary.diary_id } IN
  IF hits = {} THEN RerankResult(diary, diary.score, "No ranking provided")
  ELSE RerankResult(diary,
                    rankings[CHOOSE i \in hits : \A j \in hits : j <= i].relevanceScore * 100,
                    "ranked")

NoRerank ==
  [pc |-> "none", diaries |-> <<>>, topK |-> 0, strategy |-> "", result |-> <<>>,
   modelCalls |-> 0]

RerankFrame == UNCHANGED <<genVars, chatVars, storeVars, svcVars, emb, storing, trig>>

\* the heuristic strategy is applied
RerankFast ==
  /\ rr.pc = "new"
  /\ rr' = [rr EXCEPT !.pc = "returned", !.strategy = "fast",
                      !.result = rerankDiariesFast(rr.diaries, rr.topK)]
  /\ RerankFrame

\* rerankDiaries up to the model call (reranker.service.ts:52-89)
RerankStart ==
  /\ rr.pc = "new"
  /\ rr' = IF Len(rr.diaries) <= rr.topK
             THEN [rr EXCEPT !.pc = "returned", !.strategy = "model",
                             !.result = VectorScores(rr.diaries, "Vector similarity score")]
             ELSE [rr EXCEPT !.pc = "model", !.strategy = "model"]
  /\ RerankFrame

\* the model call resolved (reranker.service.ts:160-198)
RerankAnswered(reply) ==
  /\ rr.pc = "model"
  /\ LET diariesToRerank == Slice(rr.diaries, MAX_DIARIES_TO_RERANK) IN
     rr' = [rr EXCEPT
              !.pc = "returned", !.modelCalls = @ + 1,
              !.result =
                IF reply.kind = "empty"
                  THEN VectorScores(Slice(rr.diaries, rr.topK), "Fallback to vector similarity")
                ELSE Slice(SortByRelevance(
                             [i \in DOMAIN diariesToRerank |->
                                Ranked(diariesToRerank[i], reply.rankings)]),
                           rr.topK)]
  /\ RerankFrame

\* the model call, or the parsing of its answer, threw
\* (reranker.service.ts:199-207)
RerankFailed ==
  /\ rr.pc = "model"
  /\ rr' = [rr EXCEPT !.pc = "returned", !.modelCalls = @ + 1,
                      !.result = VectorScores(Slice(rr.diaries, rr.topK),
                                              "Fallback due to reranker error")]
  /\ RerankFrame

\* ------------------------------------------------------------------------
\* semantic-cache.service.ts: storeInCache and cleanupUserCache, one action
\* per resolved await, for calls that overlap
\* ------------------------------------------------------------------------
\* storeInCache calls in one behaviour
MaxStoreCalls == 2

StoreCalls == 1..MaxStoreCalls

\* the locals of one call: count is the result of SELECT COUNT(*), failed
\* tells that one of its catch blocks ran
NoStore == [pc |-> "absent", userId |-> 0, query |-> "", diaryIds |-> <<>>,
            count |-> 0, failed |-> FALSE]

\* removed: the rows the cleanups deleted, kept for stating properties
NoStores == [calls |-> [c \in StoreCalls |-> NoStore], removed |-> {}]

EvictFrame ==
  UNCHANGED <<genVars, chatVars, svcVars, emb, rr, trig, diaries, embeddings, jobs, found>>

\* the catch blocks (semantic-cache.service.ts:144-147, 177-179): logged, and
\* the call resolves
StoreCaught(c) == storing' = [storing EXCEPT !.calls[c].pc = "done", !.calls[c].failed = TRUE]

\* storeInCache up to its first await (semantic-cache.service.ts:117-131)
StoreCalled(c, u, text, queryLength, responseLength, ids) ==
  /\ storing.calls[c].pc = "absent"
  /\ storing' = [storing EXCEPT !.calls[c] =
                   [NoStore EXCEPT !.pc = IF queryLength < 5 \/ responseLength < 20
                                            THEN "done" ELSE "embed",
                                   !.userId = u, !.query = text, !.diaryIds = ids]]
  /\ UNCHANGED <<cache, clock>>
  /\ EvictFrame

\* createEmbedding resolved or rejected (semantic-cache.service.ts:131)
StoreEmbedded(c) ==
  /\ storing.calls[c].pc = "embed"
  /\ \/ storing' = [storing EXCEPT !.calls[c].pc = "insert"]
     \/ StoreCaught(c)
  /\ UNCHANGED <<cache, clock>>
  /\ EvictFrame

\* INSERT INTO semantic_cache ... NOW() resolved or rejected; then
\* cleanupUserCache is called (semantic-cache.service.ts:135-143)
StoreInserted(c) ==
  /\ storing.calls[c].pc = "insert"
  /\ \/ /\ cache' = cache \cup
                      {[id |-> clock.rows + 1, user_id |-> storing.calls[c].userId,
                        query_embedding |-> ProviderEmbedding(storing.calls[c].query),
                        diary_ids |-> storing.calls[c].diaryIds,
                        created_at |-> clock.now]}
        /\ clock' = [clock EXCEPT !.rows = @ + 1]
        /\ storing' = [storing EXCEPT !.calls[c].pc = "count"]
     \/ /\ StoreCaught(c)
        /\ UNCHANGED <<cache, clock>>
  /\ EvictFrame

\* SELECT COUNT(*) ... WHERE user_id resolved or rejected
\* (semantic-cache.service.ts:157-165)
StoreCounted(c) ==
  /\ storing.calls[c].pc = "count"
  /\ \/ LET count == Cardinality(CachedFor(cache, storing.calls[c].userId)) IN
        storing' = [storing EXCEPT
                      !.calls[c].count = count,
                      !.calls[c].pc = IF count > MAX_CACHE_ENTRIES_PER_USER
                                        THEN "delete" ELSE "done"]
     \/ StoreCaught(c)
  /\ UNCHANGED <<cache, clock>>
  /\ EvictFrame

\* DELETE ... WHERE id IN (SELECT id ... ORDER BY created_at ASC LIMIT
\* deleteCount) resolved or rejected (semantic-cache.service.ts:165-175)
StoreEvicted(c) ==
  /\ storing.calls[c].pc = "delete"
  /\ \/ \E gone \in Oldest(CachedFor(cache, storing.calls[c].userId),
                           storing.calls[c].count - MAX_CACHE_ENTRIES_PER_USER) :
          /\ cache' = cache \ gone
          /\ storing' = [storing EXCEPT !.calls[c].pc = "done",
                                        !.removed = @ \cup gone]
     \/ /\ StoreCaught(c)
        /\ UNCHANGED cache
  /\ UNCHANGED clock
  /\ EvictFrame

\* ------------------------------------------------------------------------
\* rag.service.ts: extractEmotionTriggers and identifyRecurringThemes
\* ------------------------------------------------------------------------
\* the colour of the group of the diaries that have no colour: the
\* placeholder string of rag.service.ts:1985
UNKNOWN_COLOR == "unknown"

\* the keywords extractKeywords finds in a content, and their order under
\* localeCompare
Words == {"w1", "w2"}

WordRank(w) == IF w = "w1" THEN 1 ELSE 2

\* a DiarySearchResult, its content given as the keywords it holds; color is
\* VARCHAR(50) NOT NULL, so it may be the empty string
PatternDiary(id, color, keywords) ==
  [diary_id |-> id, color |-> color, keywords |-> keywords]

\* diary.color || placeholder  (rag.service.ts:1985)
GroupColor(diary) == IF diary.color = "" THEN UNKNOWN_COLOR ELSE diary.color

\* the keys of diariesByColor in insertion order (rag.service.ts:1982-1990)
RECURSIVE ColorsInOrder(_)
ColorsInOrder(ds) ==
  IF ds = <<>> THEN <<>>
  ELSE LET rest == ColorsInOrder(SubSeq(ds, 1, Len(ds) - 1))
           color == GroupColor(ds[Len(ds)])
       IN IF \E i \in DOMAIN rest : rest[i] = color THEN rest ELSE Append(rest, color)

\* diariesByColor.get(color)
OfColor(ds, color) == SelectSeq(ds, LAMBDA d : GroupColor(d) = color)

\* wordToDiaries.get(word).size: the diaries whose content holds the word
ThemeFrequency(ds, w) ==
  Cardinality({ ds[i].diary_id :
                  i \in { j \in DOMAIN ds :
                            \E k \in DOMAIN ds[j].keywords : ds[j].keywords[k] = w } })

\* rag.service.ts:1877-1939: the words found in at least minFrequency diaries,
\* the most frequent first, then alphabetically
identifyRecurringThemes(ds, minFrequency) ==
  LET ws == { w \in Words : /\ ThemeFrequency(ds, w) >= 1
                            /\ ThemeFrequency(ds, w) >= minFrequency }
      before(a, b) == \/ ThemeFrequency(ds, a) > ThemeFrequency(ds, b)
                      \/ /\ ThemeFrequency(ds, a) = ThemeFrequency(ds, b)
                         /\ WordRank(a) < WordRank(b)
  IN CHOOSE sq \in [1..Cardinality(ws) -> ws] :
       \A i, j \in 1..Cardinality(ws) : i < j => before(sq[i], sq[j])

\* the trigger of one colour (rag.service.ts:1994-2014)
EmotionTrigger(color, colorDiaries) ==
  [moodColor |-> color,
   triggers |-> Slice(identifyRecurringThemes(colorDiaries, 1), 5),
   diaryIds |-> [i \in DOMAIN colorDiaries |-> colorDiaries[i].diary_id],
   examples |-> [i \in DOMAIN Slice(colorDiaries, 3) |-> colorDiaries[i].diary_id]]

\* triggers.sort((a, b) => b.diaryIds.length - a.diaryIds.length): stable, the
\* colour of most diaries first
RECURSIVE SortByDiaryCount(_)
SortByDiaryCount(s) ==
  IF s = <<>> THEN <<>>
  ELSE LET i == CHOOSE k \in DOMAIN s :
                  /\ \A j \in DOMAIN s : Len(s[j].diaryIds) <= Len(s[k].diaryIds)
                  /\ \A j \in 1..(k - 1) : Len(s[j].diaryIds) < Len(s[k].diaryIds)
       IN <<s[i]>> \o SortByDiaryCount(SubSeq(s, 1, i - 1) \o SubSeq(s, i + 1, Len(s)))

\* rag.service.ts:1976-2019
extractEmotionTriggers(ds) ==
  IF ds = <<>> THEN <<>>
  ELSE LET colors == ColorsInOrder(ds) IN
       SortByDiaryCount([i \in DOMAIN colors |->
                           EmotionTrigger(colors[i], OfColor(ds, colors[i]))])

NoTriggers == [pc |-> "none", diaries |-> <<>>, triggers |-> <<>>]

\* the call returns
TriggersExtracted ==
  /\ trig.pc = "new"
  /\ trig' = [trig EXCEPT !.pc = "done", !.triggers = extractEmotionTriggers(trig.diaries)]
  /\ UNCHANGED <<genVars, chatVars, storeVars, svcVars, emb, rr, storing>>

LibIdle ==
  emb = EmbedNotCalled /\ rr = NoRerank /\ storing = NoStores /\ trig = NoTriggers

\* ------------------------------------------------------------------------
\* Initial conditions of the parts
\* ------------------------------------------------------------------------
GenIdle == ctx = NoContext /\ faults = 0 /\ gen = [c \in Calls |-> AbsentCall]

ChatIdle == chat = NoChat /\ sessions = InitSessions(<<>>) /\ dbFaults = 0

StoreIdle ==
  /\ diaries = {} /\ embeddings = {} /\ jobs = {} /\ cache = {}
  /\ clock = [now |-> 0, ticks |-> 0, diaries |-> 0, rows |-> 0, deletes |-> 0]
  /\ found = NoResult

\* ------------------------------------------------------------------------
\* Specification of one sendMessage request
\* ------------------------------------------------------------------------
InitChat ==
  /\ GenIdle
  /\ SvcIdle /\ LibIdle
  /\ StoreIdle
  /\ faultLimit = MaxFaultsChat
  /\ dbFaults = 0
  /\ \E prior \in {<<>>, PriorTurns} : sessions = InitSessions(prior)
  /\ \E uid \in {0, 1}, m \in Messages, sid \in {"", "s1", "s2", "sx"}, n \in {0, 2} :
       chat = [NoChat EXCEPT !.pc = "new", !.userId = uid, !.message = m,
                             !.session_id = sid, !.diaryCount = n]

NextChat == ChatStep \/ GenRun(1)

SpecChat == InitChat /\ [][NextChat]_vars

\* ------------------------------------------------------------------------
\* Specification of one generateResponse call
\* ------------------------------------------------------------------------
InitGen ==
  /\ ChatIdle
  /\ SvcIdle /\ LibIdle
  /\ StoreIdle
  /\ ctx = NoContext
  /\ faults = 0
  /\ faultLimit = MaxFaults
  /\ \E s \in Scripts, hasD \in BOOLEAN :
       gen = [c \in Calls |-> IF c = 1 THEN NewCall(1, hasD, s, "direct") ELSE AbsentCall]

NextGen == \E c \in Calls : GenStep(c)

SpecGen == InitGen /\ [][NextGen]_vars

\* ------------------------------------------------------------------------
\* Specification of two overlapping generateResponse calls of two owners
\* ------------------------------------------------------------------------
InitOverlap ==
  /\ ChatIdle
  /\ SvcIdle /\ LibIdle
  /\ StoreIdle
  /\ ctx = NoContext
  /\ faults = 0
  /\ faultLimit = MaxFaultsOverlap
  /\ \E s1, s2 \in {s \in Scripts : s.calls # <<>> /\ s.first = <<>>} :
       gen = [c \in Calls |-> NewCall(c, TRUE, IF c = 1 THEN s1 ELSE s2, "direct")]

SpecOverlap == InitOverlap /\ [][NextGen]_vars

\* ------------------------------------------------------------------------
\* Specification of the vector store: diaries come and go, searches run
\* ------------------------------------------------------------------------
\* the diaries created: owner, text and date (hours; 10 is on day 0, 30 on day 1)
CreateInputs ==
  { [u |-> 1, text |-> "t4", date |-> 10], [u |-> 1, text |-> "t1", date |-> 30],
    [u |-> 2, text |-> "t1", date |-> 10], [u |-> 2, text |-> "t4", date |-> 30] }

\* the query vectors: that of "t1", and one of another dimension
Queries == { ProviderEmbedding("t1"), [point |-> 1, len |-> 3] }

\* no range, or day 0
Ranges == { NoRange, [startDate |-> 0, endDate |-> 0] }

InitSearch == GenIdle /\ ChatIdle /\ StoreIdle /\ SvcIdle /\ LibIdle /\ faultLimit = 0

NextSearch ==
  \/ \E in \in CreateInputs : CreateDiary(in.u, in.text, in.date)
  \/ \E j \in jobs : EmbeddingStored(j)
  \/ \E j \in jobs : EmbeddingFailed(j)
  \/ \E id \in 1..MaxDiaries : DeleteDiary(id)
  \/ \E j \in jobs : EmbeddingCleaned(j)
  \/ \E j \in jobs : DiaryRowDeleted(j)
  \/ \* one search at a time: its result is read before the next is issued
     \E u \in Owners, q \in Queries, k \in 0..2, r \in Ranges :
       found.op # "search" /\ Search(u, q, k, r)

SpecSearch == InitSearch /\ [][NextSearch]_vars

\* ------------------------------------------------------------------------
\* Specification of the semantic cache: answers are stored, looked up, and
\* age, while the diary they refer to may be deleted
\* ------------------------------------------------------------------------
InitCache ==
  /\ GenIdle /\ ChatIdle /\ SvcIdle /\ LibIdle /\ faultLimit = 0
  /\ diaries = {[diary_id |-> 1, user_id |-> 1, date |-> 10]}
  /\ embeddings = {[diary_id |-> 1, embedding |-> ProviderEmbedding("t1")]}
  /\ jobs = {}
  /\ cache = {}
  /\ clock = [now |-> 0, ticks |-> 0, diaries |-> 1, rows |-> 0, deletes |-> 0]
  /\ found = NoResult

\* the answers stored: owner, query text, the diaries the answer used, and
\* the lengths of query and response
StoreInputs ==
  { [u |-> 1, text |-> "t1", ids |-> <<1>>, queryLength |-> 5, responseLength |-> 20],
    [u |-> 1, text |-> "t2", ids |-> <<>>, queryLength |-> 5, responseLength |-> 20],
    [u |-> 2, text |-> "t1", ids |-> <<>>, queryLength |-> 5, responseLength |-> 20],
    [u |-> 2, text |-> "t1", ids |-> <<>>, queryLength |-> 4, responseLength |-> 20],
    [u |-> 2, text |-> "t1", ids |-> <<>>, queryLength |-> 5, responseLength |-> 19] }

\* an answer refers to diaries that exist when it is stored
Existing(ids) == \A i \in DOMAIN ids : \E d \in diaries : d.diary_id = ids[i]

NextCache ==
  \/ \E in \in StoreInputs :
       /\ Existing(in.ids)
       /\ StoreInCache(in.u, in.text, in.queryLength, in.responseLength, in.ids)
  \/ \E u \in Owners, t \in {"t1", "t4"} : SearchCache(u, t)
  \/ \E h \in {1, 24} : Tick(h)
  \/ DeleteDiary(1)
  \/ \E j \in jobs : EmbeddingCleaned(j)
  \/ \E j \in jobs : DiaryRowDeleted(j)

SpecCache == InitCache /\ [][NextCache]_vars

\* ------------------------------------------------------------------------
\* Specification of one sendMessage request of an owner whose message is
\* allowed, with a provider that may fail on every attempt and a storage that
\* does not fail
\* ------------------------------------------------------------------------
InitFallback ==
  /\ GenIdle
  /\ SvcIdle /\ LibIdle
  /\ StoreIdle
  /\ faultLimit = MAX_RETRIES
  /\ dbFaults = MaxDbFaults
  /\ \E prior \in {<<>>, PriorTurns} : sessions = InitSessions(prior)
  /\ \E m \in {<<"hi">>, <<" ", "m1">>}, n \in {0, 2} :
       chat = [NoChat EXCEPT !.pc = "new", !.userId = 1, !.message = m,
                             !.session_id = "", !.diaryCount = n]

NextFallback ==
  \/ ChatStart
  \/ SessionResolved
  \/ UserSaved
  \/ RecentLoaded
  \/ DiariesCounted
  \/ CacheSearched
  \/ ContextRetrieved
  \/ GenerateReturned
  \/ GenerateThrew
  \/ CtaAnalyzed
  \/ CacheStoreSettled
  \/ RagReturned
  \/ AssistantSaved
  \/ SummarizationChecked
  \/ GenRun(1)

SpecFallback == InitFallback /\ [][NextFallback]_vars

\* ------------------------------------------------------------------------
\* Specification of the sessions of the day: owners ask for their session
\* while sessions are deactivated and days pass
\* ------------------------------------------------------------------------
InitSessionOfDay ==
  /\ GenIdle /\ ChatIdle /\ StoreIdle /\ faultLimit = 0
  /\ chatSessions = {} /\ chatMessages = {}
  /\ \E now \in {8, 23} : svcClock = SvcClockAt(now, 0, 0, MaxSvcTicks)
  /\ summ = NoRuns /\ goc = {} /\ ret = NoReturn
  /\ LibIdle

NextSessionOfDay ==
  \/ \E u \in Owners : GetOrCreateFind(u)
  \/ \E c \in goc : GetOrCreateCreate(c)
  \/ \E sid \in 1..MaxNewSessions : DeactivateSession(sid)
  \/ \E h \in {1, HoursPerDay} : SvcTick(h)

SpecSessionOfDay == InitSessionOfDay /\ [][NextSessionOfDay]_vars

\* ------------------------------------------------------------------------
\* Specification of the messages of two sessions: messages are saved, read
\* back and summarized
\* ------------------------------------------------------------------------
\* the messages a session of n turns holds: two turns an hour
StoredMessages(sid, first, n, start) ==
  { MessageRow(first + i, sid, start + (i \div 2)) : i \in 0..(n - 1) }

InitMessages ==
  /\ GenIdle /\ ChatIdle /\ StoreIdle /\ faultLimit = 0
  /\ chatSessions = {SessionRow(1, 1, 0), SessionRow(2, 2, 0)}
  /\ \E n \in {9, 11, 12} :
       /\ chatMessages = StoredMessages(1, 1, n, 1) \cup StoredMessages(2, n + 1, 2, 7)
       /\ svcClock = SvcClockAt(7, n + 2, 2, MaxMessageTicks)
  /\ summ = NoRuns /\ goc = {} /\ ret = NoReturn
  /\ LibIdle

NextMessages ==
  \/ \E sid \in 1..2 : SaveMessage(sid)
  \/ \E sid \in 1..2, limit \in 0..3 : GetRecentMessages(sid, limit)
  \/ \E sid \in 1..2 : NeedsSummarization(sid)
  \/ \E sid \in 1..2 : SummarizeStart(1, sid)
  \/ SummarizeFetched(1)
  \/ SummaryGenerated(1)
  \/ SummaryStored(1)
  \/ MessagesDeleted(1)
  \/ SvcTick(1)

SpecMessages == InitMessages /\ [][NextMessages]_vars

\* ------------------------------------------------------------------------
\* Specification of one createEmbedding call, against a provider that may
\* answer each request in any way
\* ------------------------------------------------------------------------
EmbedTexts == { <<>>, <<" ">>, <<"t1">>, <<"t2">> }

InitEmbed ==
  /\ GenIdle /\ ChatIdle /\ StoreIdle /\ SvcIdle /\ faultLimit = 0
  /\ emb = EmbedNotCalled /\ rr = NoRerank /\ storing = NoStores /\ trig = NoTriggers

NextEmbed ==
  \/ \E text \in EmbedTexts, apiKey \in BOOLEAN : EmbedStart(text, apiKey)
  \/ \E reply \in EmbedReplies : EmbedAnswered(reply)
  \/ EmbedDelayElapsed

SpecEmbed == InitEmbed /\ [][NextEmbed]_vars

\* ------------------------------------------------------------------------
\* Specification of one rerank call: candidates as a search returns them
\* (best vector score first), under either strategy
\* ------------------------------------------------------------------------
CandidatePool ==
  <<Candidate(1, 900, 0, 0, FALSE, 730), Candidate(2, 850, 1, 1, TRUE, 0),
    Candidate(3, 800, 0, 1, FALSE, 365), Candidate(4, 800, 1, 0, FALSE, 0)>>

\* the candidates at the positions in P, in the order of the pool
RECURSIVE Picked(_, _)
Picked(P, i) ==
  IF i > Len(CandidatePool) THEN <<>>
  ELSE (IF i \in P THEN <<CandidatePool[i]>> ELSE <<>>) \o Picked(P, i + 1)

InitRerank ==
  /\ GenIdle /\ ChatIdle /\ StoreIdle /\ SvcIdle /\ faultLimit = 0
  /\ emb = EmbedNotCalled /\ storing = NoStores /\ trig = NoTriggers
  /\ \E P \in SUBSET DOMAIN CandidatePool, topK \in 1..3 :
       rr = [NoRerank EXCEPT !.pc = "new", !.diaries = Picked(P, 1), !.topK = topK]

NextRerank ==
  \/ RerankFast
  \/ RerankStart
  \/ \E reply \in RerankReplies : RerankAnswered(reply)
  \/ RerankFailed

SpecRerank == InitRerank /\ [][NextRerank]_vars

\* ------------------------------------------------------------------------
\* Specification of the eviction: storeInCache calls that may overlap, for
\* an owner whose cache is at the cap or one row below it
\* ------------------------------------------------------------------------
\* the rows stored before: one an hour
Preloaded(n) ==
  { [id |-> i, user_id |-> 1, query_embedding |-> ProviderEmbedding("t4"),
     diary_ids |-> <<>>, created_at |-> i] : i \in 1..n }

InitEvict ==
  /\ GenIdle /\ ChatIdle /\ SvcIdle /\ LibIdle /\ faultLimit = 0
  /\ diaries = {} /\ embeddings = {} /\ jobs = {}
  /\ \E n \in {MAX_CACHE_ENTRIES_PER_USER - 1, MAX_CACHE_ENTRIES_PER_USER} :
       /\ cache = Preloaded(n)
       /\ clock = [now |-> MAX_CACHE_ENTRIES_PER_USER, ticks |-> 0, diaries |-> 0,
                   rows |-> n, deletes |-> 0]
  /\ found = NoResult

NextEvict ==
  \/ \E c \in StoreCalls, u \in Owners, queryLength \in {4, 5} :
       StoreCalled(c, u, "t1", queryLength, 20, <<>>)
  \/ \E c \in StoreCalls : StoreEmbedded(c)
  \/ \E c \in StoreCalls : StoreInserted(c)
  \/ \E c \in StoreCalls : StoreCounted(c)
  \/ \E c \in StoreCalls : StoreEvicted(c)
  \/ Tick(1)

SpecEvict == InitEvict /\ [][NextEvict]_vars

\* ------------------------------------------------------------------------
\* Specification of one extractEmotionTriggers call on a few diaries
\* ------------------------------------------------------------------------
\* diaries given to one call
MaxInputDiaries == 2

InputDiaries ==
  { PatternDiary(id, color, keywords) :
      id \in 1..3, color \in {"", "red", "blue"},
      keywords \in {<<>>, <<"w2">>, <<"w2", "w1">>} }

InitTriggers ==
  /\ GenIdle /\ ChatIdle /\ StoreIdle /\ SvcIdle /\ faultLimit = 0
  /\ emb = EmbedNotCalled /\ rr = NoRerank /\ storing = NoStores
  /\ \E n \in 0..MaxInputDiaries : \E ds \in [1..n -> InputDiaries] :
       /\ \A i, j \in 1..n : i < j => ds[i].diary_id # ds[j].diary_id
       /\ trig = [NoTriggers EXCEPT !.pc = "new", !.diaries = ds]

NextTriggers == TriggersExtracted

SpecTriggers == InitTriggers /\ [][NextTriggers]_vars

\* ------------------------------------------------------------------------
\* Specification of the summarization of one session by runs that may
\* overlap, while messages are appended
\* ------------------------------------------------------------------------
InitSummarize ==
  /\ GenIdle /\ ChatIdle /\ StoreIdle /\ faultLimit = 0
  /\ chatSessions = {SessionRow(1, 1, 0)}
  /\ \E n \in {11, 12} :
       /\ chatMessages = { MessageRow(i, 1, i) : i \in 1..n }
       /\ svcClock = SvcClockAt(n + 1, n, 1, 0)
  /\ summ = NoRuns /\ goc = {} /\ ret = NoReturn
  /\ LibIdle

NextSummarize ==
  \/ SaveMessage(1)
  \/ \E r \in SummRuns : SummarizeStart(r, 1)
  \/ \E r \in SummRuns : SummarizeFetched(r)
  \/ \E r \in SummRuns : SummaryGenerated(r)
  \/ \E r \in SummRuns : SummaryStored(r)
  \/ \E r \in SummRuns : MessagesDeleted(r)

SpecSummarize == InitSummarize /\ [][NextSummarize]_vars

\* ------------------------------------------------------------------------
\* Specification of one request that names a session: a message sent to a
\* session of another user or to no session, or a session read, removed or
\* asked for its context by any caller
\* ------------------------------------------------------------------------
InitAccess ==
  /\ GenIdle
  /\ SvcIdle /\ LibIdle
  /\ StoreIdle
  /\ faultLimit = 0
  /\ dbFaults = 0
  /\ \E prior \in {<<>>, PriorTurns} : sessions = InitSessions(prior)
  /\ \/ \E uid \in {0, 1, 2}, m \in Messages, sid \in {"s1", "s2", "sx"} :
          /\ uid # 0 => (sid \in SessionIds => InitSessions(<<>>)[sid].user_id # uid)
          /\ chat = [NoChat EXCEPT !.pc = "new", !.userId = uid, !.message = m,
                                   !.session_id = sid]
     \/ \E endpoint \in SessionEndpoints, uid \in {0, 1, 2},
           sid \in {"", "s1", "s2", "sx"}, limit \in {-1, 10} :
          /\ endpoint # "getSessionContext" => limit = 10
          /\ chat = SessionRequest(endpoint, uid, sid, limit)

NextAccess ==
  \/ ChatStart
  \/ SessionResolved
  \/ SessionRequested
  \/ SessionLookedUp
  \/ SessionDeleted
  \/ SessionContextRead

SpecAccess == InitAccess /\ [][NextAccess]_vars

\* ------------------------------------------------------------------------
\* Specification of one chat request in which every awaited call settles:
\* a continuation of the handler or of the generation that can run does run.
\* The client closing the connection is left to the client
\* ------------------------------------------------------------------------
HandlerStep == ChatStep /\ ~ClientCloses

SpecChatFair ==
  /\ InitChat
  /\ [][NextChat]_vars
  /\ WF_vars(HandlerStep)
  /\ WF_vars(GenRun(1))

\* ------------------------------------------------------------------------
\* Properties
\* ------------------------------------------------------------------------

\* C1: when generation calls of different owners overlap, every tool executed
\* within a call reads exactly the owner identity of the request that started
\* the call, never another request's and never a missing one.
C1_ToolsRunAsCallingOwner ==
  \A c \in Calls : \A i \in DOMAIN gen[c].ctxSeen : gen[c].ctxSeen[i] = gen[c].userId

\* C2: every row a vector search returns, with or without a date range, is a
\* diary of the querying owner.
C2_SearchReturnsOnlyOwnDiaries ==
  found.op = "search" =>
    \A i \in DOMAIN found.rows :
      /\ found.rows[i].user_id = found.user_id
      /\ \E d \in diaries : d.diary_id = found.rows[i].diary_id /\ d.user_id = found.user_id

\* a search returned a row although a diary of another owner is more similar
\* to the query
C2_OtherOwnerMoreSimilar ==
  /\ found.op = "search"
  /\ found.rows # <<>>
  /\ \E r \in Joined :
       /\ r.user_id # found.user_id
       /\ Similarity(r.embedding, found.q) > found.rows[1].score

IsTerminal(type) == type \in {"done", "error"}

\* C3: a request that started streaming emits one session event, then one
\* token event per token produced, then one terminal event (stated for a client
\* that stays connected, when the handler has finished).
C3_SessionThenTokensThenOneTerminal ==
  (chat.headersSent /\ ~chat.closed /\ chat.pc \in {"ended", "crashed"}) =>
    /\ Len(chat.events) = chat.produced + 2
    /\ chat.events[1].type = "session"
    /\ \A i \in 2..(chat.produced + 1) : chat.events[i].type = "token"
    /\ IsTerminal(chat.events[chat.produced + 2].type)

\* C4: once a done or error event is written, no further event is written.
C4_NoEventAfterTerminal ==
  [][(\E i \in DOMAIN chat.events : IsTerminal(chat.events[i].type))
       => chat'.events = chat.events]_vars

\* the text the provider streamed for the answer of a call
StreamedText(g) ==
  IF shouldUseTools(g) /\ g.script.calls # <<>> THEN g.script.first \o g.script.second
  ELSE IF g.script.calls = <<>> THEN g.script.first
  ELSE g.script.second

\* C5: the sequence delivered to onToken during one call holds each fragment
\* of the answer once, in arrival order, retries included.
C5_EachFragmentDeliveredOnce ==
  \A c \in Calls : gen[c].pc = "done" => gen[c].delivered = StreamedText(gen[c])

WellFormedCall(call) == ValidJSON(call.args) /\ call.name \in ToolNames

\* C6: when a response requests k >= 1 (well-formed) tool calls, exactly those
\* k tools are executed, each with its own name and arguments, and one tool
\* turn per call is appended before the second request.
C6_EveryRequestedToolExecutedOnce ==
  \A c \in Calls :
    LET g == gen[c]
        calls == g.script.calls IN
    (g.pc = "req2" /\ \A i \in DOMAIN calls : WellFormedCall(calls[i])) =>
      /\ g.executed = [i \in DOMAIN calls |-> [name |-> calls[i].name, args |-> calls[i].args]]
      /\ g.turns = [i \in DOMAIN calls |-> calls[i].id]

\* rate limit, connection failure, timeout, 5xx
Transient(e) ==
  \/ e.status = 429
  \/ e.status \in 500..599
  \/ e.code \in {"ECONNREFUSED", "ETIMEDOUT", "ENOTFOUND"}
  \/ e.msg \in {"network", "timeout"}

\* C7: a call makes at most 3 attempts; a retryable failure is followed by the
\* fixed delay and another attempt while attempts remain; a non-retryable
\* failure is not retried: it ends the call with a classified error.
C7_BoundedRetryPolicy ==
  \A c \in Calls :
    LET g == gen[c]
        n == Len(g.errs) IN
    /\ g.attempt <= 3
    /\ n <= 3
    /\ Len(g.delays) = (IF g.attempt = 0 THEN 0 ELSE g.attempt - 1)
    /\ \A i \in DOMAIN g.delays : g.delays[i] = 3000
    /\ \A i \in 1..n : ~Transient(g.errs[i]) => (i = n /\ g.pc = "failed")
    /\ (n > 0 /\ Transient(g.errs[n])) =>
         IF n < 3 THEN g.pc # "failed" ELSE g.pc = "failed"
    /\ g.pc = "failed" =>
         /\ n > 0
         /\ g.thrown \in {"RateLimitExceeded", "AuthenticationError",
                          "ConnectivityError", "GenerationError"}
         /\ g.errs[n].status = 429 => g.thrown = "RateLimitExceeded"
         /\ g.errs[n].status = 401 => g.thrown = "AuthenticationError"

\* three retryable failures in a row: two delays, then the call fails
C7_RetriesExhausted ==
  \E c \in Calls :
    /\ gen[c].pc = "failed"
    /\ Len(gen[c].errs) = 3
    /\ \A i \in 1..3 : Transient(gen[c].errs[i])
    /\ Len(gen[c].delays) = 2

\* C8: after a diary is deleted, no cache lookup returns an entry whose
\* diary_ids contains it.
C8_NoHitOnDeletedDiary ==
  (found.op = "cache" /\ found.ok) =>
    \A i \in DOMAIN found.rows[1].diary_ids :
      \E d \in diaries : d.diary_id = found.rows[1].diary_ids[i]

\* C9: a cache lookup for one owner never returns a row stored for another.
C9_CacheReturnsOnlyOwnRows ==
  found.op = "cache" => \A i \in DOMAIN found.rows : found.rows[i].user_id = found.user_id

\* a lookup returned the owner's own, less similar row while a fresh row of
\* another owner matches the query exactly
C9_OtherOwnerExactMatch ==
  /\ found.op = "cache"
  /\ found.ok
  /\ found.rows[1].score < 100
  /\ \E r \in cache :
       /\ r.user_id # found.user_id
       /\ Similarity(r.query_embedding, found.q) = 100
       /\ clock.now - r.created_at < 24

\* C10: a lookup is a hit exactly when the owner has a row with similarity at
\* least 0.92 and age below 24 hours, and the row returned is such a row; so a
\* row of similarity 0.95 is a hit at age 1 hour and a miss at age 25 hours.
C10_HitIffSimilarAndFresh ==
  found.op = "cache" =>
    /\ found.ok <=>
         \E r \in cache :
           /\ r.user_id = found.user_id
           /\ Similarity(r.query_embedding, found.q) >= 92
           /\ clock.now - r.created_at < 24
    /\ found.ok =>
         /\ found.rows[1].score >= 92
         /\ clock.now - found.rows[1].created_at < 24

\* a row of similarity 0.95 is hit at age 1 hour while a row of the same owner
\* that matches exactly has aged 25 hours
C10_HitAtOneHourMissAtTwentyFive ==
  /\ found.op = "cache"
  /\ found.ok
  /\ found.rows[1].score = 95
  /\ clock.now - found.rows[1].created_at = 1
  /\ \E r \in cache :
       /\ r.user_id = found.user_id
       /\ Similarity(r.query_embedding, found.q) = 100
       /\ clock.now - r.created_at = 25

\* the turns a session holds that are marked as interrupted
InterruptedTurns(sid) ==
  { i \in DOMAIN sessions[sid].messages :
      /\ sessions[sid].messages[i].role = "assistant"
      /\ Len(sessions[sid].messages[i].content) > 1
      /\ sessions[sid].messages[i].content[Len(sessions[sid].messages[i].content)]
           = INTERRUPTED_MARKER[1] }

\* C11: when generation fails after token events were sent, the session holds
\* an assistant turn with the streamed content, marked as interrupted (stated
\* for a connected client and a storage that does not fail, once the handler
\* has finished).
C11_StreamedContentSavedAsInterrupted ==
  (/\ chat.pc = "ended"
   /\ gen[1].pc = "failed"
   /\ gen[1].delivered # <<>>
   /\ ~chat.closed
   /\ dbFaults = 0)
  => InterruptedTurns(chat.sid) # {}

\* the last turn stored in a session, or an empty turn
LastTurn(sid) ==
  IF sessions[sid].messages = <<>> THEN Msg("none", <<>>, <<>>)
  ELSE sessions[sid].messages[Len(sessions[sid].messages)]

\* C12: when generation fails with its retries exhausted, the request ends
\* with the fixed fallback message as the answer, stored as the assistant turn,
\* and with no error event, on every path of the orchestrator.
C12_FallbackAfterRetriesExhausted ==
  (/\ chat.pc = "ended"
   /\ gen[1].pc = "failed"
   /\ Len(gen[1].errs) = MAX_RETRIES)
  => /\ chat.fullResponse \in {NO_CONTEXT_RESPONSE, DEFAULT_SUPPORTIVE_MESSAGE}
     /\ LastTurn(chat.sid) = Msg("assistant", chat.fullResponse, <<>>)
     /\ \A i \in DOMAIN chat.events : chat.events[i].type # "error"

\* C13: once the disconnection of the client has been detected during
\* streaming, the request writes no further event, and when it ends without a
\* failure of the provider or of the storage, the answer is the last turn
\* stored in the session.
C13_NoEventAfterDisconnectAnswerStored ==
  [][chat.interrupted =>
       /\ chat'.events = chat.events
       /\ chat'.pc # "crashed"
       /\ (chat'.pc = "ended" /\ dbFaults' = 0 /\ gen'[1].pc # "failed")
            => /\ chat'.fullResponse # <<>>
               /\ LastTurn(chat.sid)' = Msg("assistant", chat'.fullResponse, chat'.diaryIds)]_vars

\* C14: the user turn stored for a non-empty message is the text the user
\* sent (surrounding whitespace aside), whether the guardrail rejects the
\* message, allows it unchanged or allows it with a masked variant.
C14_UserTurnIsOriginalText ==
  chat.pc \in {"recent", "rejSaveAssistant"}
    => LastTurn(chat.sid) = Msg("user", Trim(chat.message), <<>>)

\* the positions of a request that lie before, or outside, every call of the
\* embedding and the chat-completion provider
BeforeProvider == {"new", "session", "saveUser", "rejSaveAssistant", "ended", "crashed"}

\* C15: a request whose message is empty, whitespace only or rejected by the
\* guardrail makes no provider call, embedding or chat completion.
C15_NoProviderCallWhenRejected ==
  (Trim(chat.message) = <<>> \/ ~runGuardrails(chat.message).isAllowed)
    => /\ chat.pc \in BeforeProvider
       /\ gen[1].pc = "absent"
       /\ gen[1].requests = 0

\* a rejected message was answered to the end with the guardrail's text
C15_RejectionAnswered ==
  /\ Trim(chat.message) # <<>>
  /\ ~runGuardrails(chat.message).isAllowed
  /\ chat.pc = "ended"
  /\ chat.events # <<>>
  /\ chat.events[Len(chat.events)].type = "done"
  /\ LastTurn(chat.sid) = Msg("assistant", GUARDRAIL_REASON, <<>>)

\* C16: a summarizeOldMessages call that returns on a session of more than 10
\* messages has stored a non-empty summary on the session, whatever the model
\* replied.
C16_SummaryStoredIsNonEmpty ==
  (ret.op = "summarize" /\ ~ret.threw /\ ret.n > SUMMARIZATION_THRESHOLD)
    => /\ ~ret.stored.null
       /\ ret.stored.text # <<>>

\* C17: after summarizeOldMessages has returned on a session of n > 10
\* messages that nothing else wrote to meanwhile, exactly 5 of the n messages
\* remain, the n - 5 others are deleted, and no deleted message is newer than
\* a remaining one.
C17_FiveMostRecentRemain ==
  (ret.op = "summarize" /\ ~ret.threw /\ ret.n > SUMMARIZATION_THRESHOLD /\ ~ret.concurrent)
    => /\ ret.after \subseteq ret.before
       /\ Cardinality(ret.before) = ret.n
       /\ Cardinality(ret.after) = 5
       /\ Cardinality(ret.before \ ret.after) = ret.n - 5
       /\ \A k \in ret.after : \A d \in ret.before \ ret.after : d.created_at <= k.created_at

\* 12 messages became 5, and the oldest message kept is as old as the newest
\* message deleted
C17_TwelveBecomeFive ==
  /\ ret.op = "summarize" /\ ~ret.threw /\ ~ret.concurrent
  /\ ret.n = 12
  /\ Cardinality(ret.after) = 5
  /\ \E k \in ret.after : \E d \in ret.before \ ret.after : d.created_at = k.created_at

\* C18: on a session of 10 messages or fewer needsSummarization answers false,
\* and summarizeOldMessages returns null without a model call and without
\* changing a session or deleting a message.
C18_NothingHappensAtOrBelowThreshold ==
  [][(ret' # ret /\ ret'.op \in {"summarize", "needs"} /\ ret'.n <= SUMMARIZATION_THRESHOLD)
       => IF ret'.op = "needs" THEN ~ret'.value
          ELSE /\ ret'.null
               /\ ~ret'.threw
               /\ ret'.modelCalls = 0
               /\ summ'[1].pc = "idle"
               /\ chatSessions' = chatSessions
               /\ chatMessages' = chatMessages]_vars

\* summarizeOldMessages returned null on a session of exactly 10 messages
C18_NullAtTenMessages ==
  /\ ret.op = "summarize"
  /\ ret.n = SUMMARIZATION_THRESHOLD
  /\ ret.null
  /\ Cardinality(MessagesOf(chatMessages, ret.sid)) = SUMMARIZATION_THRESHOLD

\* the messages of the session a getRecentMessages call was made on
AskedOf(r) == MessagesOf(r.before, r.sid)

\* C19: getRecentMessages(session, limit) with limit >= 1 returns
\* min(limit, total) distinct messages of the session, none older than a
\* message it leaves out, in non-decreasing created_at order.
C19_RecentMessagesOldestFirst ==
  (ret.op = "recent" /\ ret.limit >= 1)
    => /\ ~ret.threw
       /\ Len(ret.rows) = Min(ret.limit, Cardinality(AskedOf(ret)))
       /\ \A i \in DOMAIN ret.rows : ret.rows[i] \in AskedOf(ret)
       /\ \A i, j \in DOMAIN ret.rows : i # j => ret.rows[i] # ret.rows[j]
       /\ \A i \in DOMAIN ret.rows : \A m \in AskedOf(ret) \ Range(ret.rows) :
            m.created_at <= ret.rows[i].created_at
       /\ \A i, j \in DOMAIN ret.rows : i < j => ret.rows[i].created_at <= ret.rows[j].created_at

\* three of more than three messages were returned, not all of the same hour,
\* while another session holds newer messages
C19_ThreeOfManyReturned ==
  /\ ret.op = "recent" /\ ret.limit = 3
  /\ Cardinality(AskedOf(ret)) > 3
  /\ Len(ret.rows) = 3
  /\ ret.rows[1].created_at < ret.rows[3].created_at
  /\ \E m \in ret.before : m.session_id # ret.sid /\ m.created_at > ret.rows[3].created_at

\* the sessions a getOrCreateSession call had to choose from when it began
Candidates(r) ==
  { s \in r.before : s.user_id = r.u /\ s.is_active /\ s.created_at >= r.today }

\* C20: a getOrCreateSession call that nothing overlaps returns the owner's
\* most recent active session created since midnight and creates nothing when
\* there is one, and creates a session only when there is none.
C20_SessionOfTheDay ==
  (ret.op = "getOrCreate" /\ ret.sequential)
    => IF Candidates(ret) # {}
         THEN /\ ~ret.created
              /\ ret.session \in Candidates(ret)
              /\ \A s \in Candidates(ret) : s.created_at <= ret.session.created_at
              /\ ret.after = ret.before
         ELSE /\ ret.created
              /\ ret.session \notin ret.before
              /\ ret.after = ret.before \cup {ret.session}
              /\ ret.session.user_id = ret.u
              /\ ret.session.is_active

\* a session was created for an owner whose only sessions are of an earlier
\* day or deactivated
C20_NewSessionNextDay ==
  /\ ret.op = "getOrCreate" /\ ret.sequential /\ ret.created
  /\ \E s \in ret.before : s.user_id = ret.u /\ s.is_active /\ s.created_at < ret.today

\* a response with a 4xx status other than 429
ClientErrorReply(reply) ==
  reply.kind = "error" /\ reply.status \in (400..499) \ {429}

C22_DimensionMismatchFailsAtOnce ==
  \A i \in DOMAIN emb.replies :
    (emb.replies[i].kind = "vector" /\ emb.replies[i].len # EMBEDDING_DIMENSION)
      => /\ i = Len(emb.replies)
         /\ emb.pc = "threw"
         /\ emb.thrown.kind = "dimension"

\* C23: a search called with topK < 1, or with a query vector of another
\* length than 1536, throws and returns no rows, with a date range and without.
C23_InvalidSearchArgumentsRejected ==
  (found.op = "search" /\ (found.topK < 1 \/ found.q.len # EMBEDDING_DIMENSION))
    => ~found.ok /\ found.rows = <<>>

\* C24: a search called with topK >= 1 that returns, returns at most topK
\* rows, in non-increasing order of score.
C24_AtMostTopKByDescendingScore ==
  (found.op = "search" /\ found.ok /\ found.topK >= 1)
    => /\ Len(found.rows) <= found.topK
       /\ \A i, j \in DOMAIN found.rows : i < j => found.rows[i].score >= found.rows[j].score

\* the owner of two embedded diaries asks for one: the more similar is returned
C24_BestOfTwoReturned ==
  /\ found.op = "search" /\ found.ok /\ found.topK = 1
  /\ Len(found.rows) = 1
  /\ \E r \in Joined : r.user_id = found.user_id
                         /\ Similarity(r.embedding, found.q) < found.rows[1].score

\* C25: every row a search with a date range returns is dated within
\* [startDate, end of the day of endDate].
C25_ResultsWithinDateRange ==
  (found.op = "search" /\ found.ok /\ found.range # NoRange)
    => \A i \in DOMAIN found.rows :
         /\ found.rows[i].date >= found.range.startDate
         /\ found.rows[i].date <= (found.range.endDate \div 24) * 24 + 23

\* a search with a range returned a diary of the range while the owner has a
\* more similar diary dated after it
C25_MoreSimilarDiaryOutsideRange ==
  /\ found.op = "search" /\ found.ok /\ found.range # NoRange
  /\ Len(found.rows) = 1
  /\ \E r \in Joined : /\ r.user_id = found.user_id
                       /\ r.date > (found.range.endDate \div 24) * 24 + 23
                       /\ Similarity(r.embedding, found.q) > found.rows[1].score

\* C26: no embedding exists for a diary whose row is gone, and no search
\* returns such a diary, whenever the embedding generation launched at its
\* creation completes.
C26_NoEmbeddingOfDeletedDiary ==
  /\ \A e \in embeddings : \E d \in diaries : d.diary_id = e.diary_id
  /\ found.op = "search"
       => \A i \in DOMAIN found.rows : \E d \in diaries : d.diary_id = found.rows[i].diary_id

\* the embedding generation of a diary completed after the diary was deleted,
\* and wrote nothing
C26_GenerationCompletedAfterDeletion ==
  /\ found.op = "upsert" /\ ~found.ok
  /\ clock.deletes > 0
  /\ \A d \in diaries : d.diary_id # found.diary_id
  /\ \A e \in embeddings : e.diary_id # found.diary_id

\* C30: createDiary answers 200 while the embedding generation it launched
\* is still under way (no embedding written yet), and when that generation
\* fails afterwards the diary rows are as they were.
C30_CreationDoesNotWaitForEmbedding ==
  [][/\ (found'.op = "createDiary" /\ found' # found)
          => /\ found'.ok
             /\ \E j \in jobs' : j.kind = "embed" /\ j.diary_id = found'.diary_id
             /\ \A e \in embeddings' : e.diary_id # found'.diary_id
             /\ \E d \in diaries' : d.diary_id = found'.diary_id
     /\ (found'.op = "embedFailed" /\ found' # found)
          => /\ diaries' = diaries
             /\ embeddings' = embeddings]_vars

\* the embedding generation of a diary failed and the diary is there, without
\* an embedding
C30_DiaryKeptAfterFailedEmbedding ==
  /\ found.op = "embedFailed"
  /\ \E d \in diaries : d.diary_id = found.diary_id
  /\ \A e \in embeddings : e.diary_id # found.diary_id

\* C27: a rerank call on at most topK candidates returns all of them in the
\* order given, each with its vector score as relevance score, and calls no
\* model, under the heuristic and under the model-based strategy.
C27_FewCandidatesReturnedUnchanged ==
  (rr.pc = "returned" /\ Len(rr.diaries) <= rr.topK)
    => /\ rr.modelCalls = 0
       /\ Len(rr.result) = Len(rr.diaries)
       /\ \A i \in DOMAIN rr.result :
            /\ rr.result[i].diary = rr.diaries[i]
            /\ rr.result[i].relevanceScore = rr.diaries[i].score

\* C28: a failure inside a cache operation does not reach the request. When
\* the lookup fails the request goes on exactly as it does after a miss: no
\* event is written, nothing is saved and the next step is the retrieval.
\* When the store launched after the generation fails, in the insert or in
\* the eviction, nothing of the request or of the saved messages changes.
C28_CacheFailuresStayInsideTheCache ==
  [][ /\ (chat.pc = "ragCache" /\ chat'.lookup = "failed")
         => /\ [chat' EXCEPT !.lookup = "miss"]
                 = [chat EXCEPT !.pc = "ragRetrieve", !.lookup = "miss"]
            /\ sessions' = sessions
      /\ (chat.store = "pending" /\ chat'.store \in {"failed", "evictionFailed"})
         => /\ chat' = [chat EXCEPT !.store = chat'.store]
            /\ sessions' = sessions ]_vars

\* the request ended with the done event and the saved answer, and the store
\* it launched failed
C28_AnswerDeliveredThoughStoreFailed ==
  /\ chat.store = "failed"
  /\ chat.ended
  /\ chat.events # <<>>
  /\ chat.events[Len(chat.events)].type = "done"
  /\ \A i \in DOMAIN chat.events : chat.events[i].type # "error"
  /\ chat.sid \in SessionIds
  /\ sessions[chat.sid].messages # <<>>
  /\ sessions[chat.sid].messages[Len(sessions[chat.sid].messages)]
       = Msg("assistant", chat.fullResponse, chat.diaryIds)

\* C29: once the stores of an owner have completed without a failure, the
\* owner has the 100 newest of the rows they ever had (all of them when fewer):
\* the evicted rows are the excess over the cap and none is newer than a row
\* that stayed - also when the stores overlapped.
C29_EvictionLeavesHundredNewest ==
  (\A c \in StoreCalls : /\ storing.calls[c].pc \in {"absent", "done"}
                         /\ ~storing.calls[c].failed)
  => \A u \in Owners :
       LET kept == CachedFor(cache, u)
           removed == CachedFor(storing.removed, u) IN
       /\ Cardinality(kept)
            = Min(Cardinality(kept \cup removed), MAX_CACHE_ENTRIES_PER_USER)
       /\ \A r \in removed, k \in kept : r.created_at <= k.created_at

\* C31: every diary id attached to the trigger group of colour C is the id of
\* an input diary whose colour is C.
C31_TriggerDiariesHaveGroupColor ==
  trig.pc = "done" =>
    \A g \in DOMAIN trig.triggers : \A k \in DOMAIN trig.triggers[g].diaryIds :
      \E i \in DOMAIN trig.diaries :
        /\ trig.diaries[i].diary_id = trig.triggers[g].diaryIds[k]
        /\ trig.diaries[i].color = trig.triggers[g].moodColor

\* C32: across the attempts of one generateResponse call no requested tool is
\* executed twice: the messages of the call never hold two results of an
\* executed tool for the same tool call.
C32_ToolsExecutedOnceAcrossAttempts ==
  \A c \in Calls : \A i, j \in DOMAIN gen[c].messages :
    (/\ i < j
     /\ gen[c].messages[i].role = "tool"
     /\ gen[c].messages[j].role = "tool"
     /\ gen[c].messages[i].content # "execution_failed"
     /\ gen[c].messages[j].content # "execution_failed")
    => gen[c].messages[i].tool_call_id # gen[c].messages[j].tool_call_id

\* C33: no step deletes one of the 5 most recent messages of a session: a
\* message that is deleted has at least 5 other messages of its session that
\* are at least as recent, whether runs overlap or messages are appended
\* meanwhile.
C33_RecentMessagesNeverDeleted ==
  [][ \A m \in chatMessages \ chatMessages' :
        Cardinality({ x \in MessagesOf(chatMessages, m.session_id) :
                        x # m /\ x.created_at >= m.created_at }) >= keepRecent ]_vars

\* C34: a getOrCreateSession call that found no session of today creates one
\* when its create resolves, whatever the owner's sessions are by then; so two
\* calls of one owner that overlap can leave the owner with two active
\* sessions created today.
C34_CreateDoesNotLookAgain ==
  [][ \A c \in goc :
        (\A d \in goc' : d.id # c.id)
        => \E row \in chatSessions' \ chatSessions :
             /\ chatSessions' = chatSessions \cup {row}
             /\ row.user_id = c.u /\ row.is_active
             /\ row.created_at = svcClock.now ]_vars

\* a call that overlapped another one created a session, and the owner, who
\* had no session of today when the call began, has two active ones now
C34_TwoSessionsOfTodayAfterOverlap ==
  /\ ret.op = "getOrCreate" /\ ret.created /\ ~ret.sequential
  /\ Candidates(ret) = {}
  /\ \E s, t \in chatSessions :
       /\ s # t
       /\ s.user_id = ret.u /\ t.user_id = ret.u
       /\ s.is_active /\ t.is_active
       /\ s.created_at >= ret.today /\ t.created_at >= ret.today

\* the request passed the validation of its handler and names a session that
\* is the row of another user
NamesForeignSession(ch) ==
  /\ ch.userId # 0
  /\ ch.endpoint = "sendMessage" => Trim(ch.message) # <<>>
  /\ ch.session_id \in SessionIds
  /\ sessions[ch.session_id].user_id \notin {0, ch.userId}

\* C35: a valid request that names a session of another user has no effect and gets
\* nothing of the session: no step of it changes a session or its messages,
\* writes an event or puts session content in the body, and when it ends it
\* is with 404 or 403, or with 500 when the lookup itself failed.
C35_ForeignSessionRequestHasNoEffect ==
  [][ NamesForeignSession(chat)
      => /\ sessions' = sessions
         /\ chat'.events = <<>>
         /\ chat'.body = NoChat.body
         /\ chat'.ended => \/ chat'.json \in {403, 404}
                           \/ chat'.json = 500 /\ dbFaults' > dbFaults ]_vars

\* the removal of a session that holds messages, asked by another user, was
\* answered 403 and the messages are there
C35_ForeignRemovalRefused ==
  /\ NamesForeignSession(chat)
  /\ chat.endpoint = "removeSession"
  /\ chat.ended /\ chat.json = 403
  /\ sessions[chat.session_id].messages # <<>>

\* C36: summarizeOldMessages deletes messages only after its summary of them
\* was stored: a step removes messages only as the deleteMany of a run whose
\* chatSession.update resolved, and removes only rows that run summarized;
\* the update that lets a run go on to delete has written the run's summary;
\* a run that ends at the model call or at the update removes no message and
\* returns by throwing.
C36_DeleteOnlyAfterSummaryStored ==
  [][ /\ chatMessages \ chatMessages' # {}
         => \E r \in SummRuns :
              /\ summ[r].pc = "delete"
              /\ chatMessages \ chatMessages' \subseteq summ[r].messagesToSummarize
      /\ \A r \in SummRuns :
           /\ (summ[r].pc = "store" /\ summ'[r].pc = "delete")
                => SummaryOf(chatSessions', summ[r].sid) = SummaryText(summ[r].summary)
           /\ (summ[r].pc \in {"model", "store"} /\ summ'[r].pc = "idle")
                => chatMessages' = chatMessages /\ ret'.op = "summarize" /\ ret'.threw ]_vars

\* a run returned its summary: the summary is the stored one and the messages
\* it summarized are gone
C36_SummarizedMessagesDeleted ==
  /\ ret.op = "summarize" /\ ~ret.threw /\ ~ret.null
  /\ ret.summary # <<>>
  /\ ret.stored = SummaryText(ret.summary)
  /\ ret.before \ ret.after # {}
  /\ Cardinality(ret.after) >= keepRecent

\* the data of the token events written to the response, in order
IsTokenEvent(e) == e.type = "token"
TokensSent(ch) ==
  LET toks == SelectSeq(ch.events, IsTokenEvent)
  IN  [j \in 1..Len(toks) |-> toks[j].data]

\* the assistant messages a request added to its session
IsAssistantMessage(m) == m.role = "assistant"
AssistantMessages(sid) == SelectSeq(sessions[sid].messages, IsAssistantMessage)

\* C37: when the response of a request ends with a done event, the assistant
\* message stored last in its session is the token events sent, joined in
\* the order they were sent.
C37_StoredAnswerIsTheTokensSent ==
  (chat.ended /\ \E j \in 1..Len(chat.events) : chat.events[j].type = "done")
    => /\ AssistantMessages(chat.sid) # <<>>
       /\ AssistantMessages(chat.sid)[Len(AssistantMessages(chat.sid))].content
            = TokensSent(chat)

\* the messages of a session after the turns it held before the request
AddedMessages(sid) ==
  LET messages == sessions[sid].messages
      n == Len(PriorTurns)
  IN  IF Len(messages) >= n /\ SubSeq(messages, 1, n) = PriorTurns
        THEN SubSeq(messages, n + 1, Len(messages))
        ELSE messages

\* C38: a sendMessage request stores at most one assistant message in its
\* session, whatever step fails after the save.
C38_AtMostOneAssistantMessage ==
  \A sid \in SessionIds : Len(SelectSeq(AddedMessages(sid), IsAssistantMessage)) <= 1

\* C39: every sendMessage request completes its response, by ending the
\* stream or by a JSON answer, when every provider and storage call settles.
C39_EveryRequestCompletes == <>chat.ended

====
